---- MODULE Spec2Model ----
(***************************************************************************)
(* Pounder RF front-end driver (src/hardware/pounder/mod.rs): the          *)
(* attenuator shift-register protocol, the GPIO latch/clock-select lines,  *)
(* the configuration orchestration (update_dds), the QSPI interface of the *)
(* DDS, the two-variant GPIO expander with the initialisation sequence,    *)
(* and the sensor read-back (power, auxiliary ADC, telemetry); the DFU     *)
(* boot flag (src/hardware/dfu.rs) and the MQTT telemetry client           *)
(* (src/net/telemetry.rs).                                                 *)
(*                                                                         *)
(* Units.  f32 quantities are represented by exact integers:               *)
(*   attenuation   in quarter dB   (31.5 dB = 126, 0.25 dB = 1)            *)
(*   frequencies   in MHz                                                  *)
(*   amplitude     in percent of full scale                                *)
(*   phase offset  in degrees                                              *)
(*   ADC readings  in thousandths of full scale                            *)
(*   voltages      in microvolts                                           *)
(*   power         in 1/51700 dBm                                          *)
(*   temperature   in degrees Celsius                                      *)
(* Every configuration value used is exactly representable in f32, so the *)
(* f32 arithmetic of the source is exact on them; the sensor conversions   *)
(* are computed in exact arithmetic, without the rounding of f32.          *)
(***************************************************************************)
EXTENDS Integers, Sequences, FiniteSets, TLC

VARIABLES
    reg,        \* attenuator staging shift register, byte k belongs to channel index k
    out,        \* attenuator output (latched) registers
    level,      \* electrical level last written to every GPIO expander pin
    dds,        \* profile last written to each DDS channel bit
    clocking,   \* the caller's currently applied ClockConfig (*clocking)
    op,         \* name of the last driver call
    args,       \* its arguments
    ret,        \* its result
    trace,      \* bus operations and log lines of the last call, in program order
    calls,      \* number of PounderDevices / setup::Pounder calls made so far
    mode,       \* QspiInterface.mode
    streaming,  \* QspiInterface.streaming
    qspi_regs,  \* QUADSPI peripheral registers written by start_stream
    io,         \* IoExpander variant selected by the probe
    expander,   \* direction and output level of the expander's 16 physical pins
    dir,        \* direction of every GpioPin, seen through the selected variant
    bootflag,   \* the four bytes of memory at _bootflag, byte 0 first
    meta_published, \* TelemetryClient.meta_published
    prefix,     \* length in bytes of TelemetryClient.prefix
    mqtt        \* the MQTT client: connected, and the metadata messages
                \* published on the present broker connection

vars == <<reg, out, level, dds, clocking, op, args, ret, trace, calls,
          mode, streaming, qspi_regs, io, expander, dir,
          bootflag, meta_published, prefix, mqtt>>

\* The state of the QspiInterface and of the GPIO expander.
qspiVars == <<mode, streaming, qspi_regs>>
ioVars == <<io, expander, dir>>

\* The boot flag and the telemetry client.
sysVars == <<bootflag, meta_published, prefix, mqtt>>

\* Number of driver calls explored from power-on.
MaxCalls == 2

----------------------------------------------------------------------------
(* Addressing model *)

Channel == {"In0", "Out0", "In1", "Out1"}

\* Channel discriminant: index in the shift register and of the latch line.
ChannelIndex(c) ==
    CASE c = "In0" -> 0
      [] c = "Out0" -> 1
      [] c = "In1" -> 2
      [] c = "Out1" -> 3

GpioPin ==
    {"Led4Green", "Led5Red", "Led6Green", "Led7Red", "Led8Green", "Led9Red",
     "DetPwrdown0", "DetPwrdown1", "AttLe0", "AttLe1", "AttLe2", "AttLe3",
     "DdsReset", "AttRstN", "OscEnN", "ExtClkSel"}

\* impl From<Channel> for GpioPin
ChannelToGpioPin(c) ==
    CASE c = "In0" -> "AttLe0"
      [] c = "Out0" -> "AttLe1"
      [] c = "In1" -> "AttLe2"
      [] c = "Out1" -> "AttLe3"

\* The attenuator whose latch-enable input a pin drives: AttLe<k> -> k.
LatchIndex(pin) ==
    CASE pin = "AttLe0" -> 0
      [] pin = "AttLe1" -> 1
      [] pin = "AttLe2" -> 2
      [] pin = "AttLe3" -> 3

LatchPins == {"AttLe0", "AttLe1", "AttLe2", "AttLe3"}

----------------------------------------------------------------------------
(* u8 arithmetic *)

Not8(b) == 255 - b
Shl8(b, n) == (b * (2 ^ n)) % 256
Shr8(b, n) == b \div (2 ^ n)

\* Rust `x as u8` for a float x already truncated to an integer: saturating.
AsU8(x) == IF x < 0 THEN 0 ELSE IF x > 255 THEN 255 ELSE x

\* Truncation toward zero of q / 2.
TruncHalf(q) == IF q >= 0 THEN q \div 2 ELSE -((-q) \div 2)

----------------------------------------------------------------------------
(* Bus context threaded through one driver call.  faults is the set of     *)
(* positions (1 = first bus operation of the call) at which the bus        *)
(* reports an error; a failed operation leaves the device untouched.       *)
(* Every fallible operation yields [ok, err, val, ctx]: Ok(val) or         *)
(* Err(err), and the context after it.                                     *)

NewCtx(faults) ==
    [reg |-> reg, out |-> out, level |-> level, dds |-> dds,
     trace |-> <<>>, n |-> 0, faults |-> faults]

Err(e, ctx) == [ok |-> FALSE, err |-> e, val |-> 0, ctx |-> ctx]
Ok(v, ctx) == [ok |-> TRUE, err |-> "-", val |-> v, ctx |-> ctx]

\* The `?` operator: an error returns from the function at once, a success
\* continues with the rest of the function.
Try(r, Rest(_)) == IF r.ok THEN Rest(r) ELSE Err(r.err, r.ctx)

\* IoExpander::set_gpio_level.  A rising edge on AttLe<k> copies staging
\* byte k into attenuator k's output register.
set_gpio_level(ctx, pin, lvl) ==
    LET k == ctx.n + 1
        fail == k \in ctx.faults
        rising == pin \in LatchPins /\ ctx.level[pin] = "Low" /\ lvl = "High"
        base == [ctx EXCEPT
                   !.n = k,
                   !.trace = Append(@, [bus |-> "i2c", pin |-> pin,
                                        level |-> lvl, ok |-> ~fail])]
    IN  IF fail
        THEN Err("I2c", base)
        ELSE Ok(0, [base EXCEPT
                      !.level[pin] = lvl,
                      !.out = IF rising
                              THEN [@ EXCEPT ![LatchIndex(pin)] =
                                               ctx.reg[LatchIndex(pin)]]
                              ELSE @])

\* Mutant of latch_attenuator: the datasheet order, high then low.
latch_attenuator_high_low(ctx, channel) ==
    Try(set_gpio_level(ctx, ChannelToGpioPin(channel), "High"),
        LAMBDA hi : set_gpio_level(hi.ctx, ChannelToGpioPin(channel), "Low"))

\* PounderDevices::latch_attenuator: drive low, then high.
latch_attenuator(ctx, channel) ==
    Try(set_gpio_level(ctx, ChannelToGpioPin(channel), "Low"),
        LAMBDA lo : set_gpio_level(lo.ctx, ChannelToGpioPin(channel), "High"))

\* Mutant of transfer_attenuators: the buffer is sent but what is shifted
\* out is not stored in it.
transfer_attenuators_write_only(ctx, channels) ==
    LET k == ctx.n + 1
        fail == k \in ctx.faults
        base == [ctx EXCEPT
                   !.n = k,
                   !.trace = Append(@, [bus |-> "spi", tx |-> channels,
                                        rx |-> ctx.reg, ok |-> ~fail])]
    IN  IF fail
        THEN Err("Spi", base)
        ELSE Ok(channels, [base EXCEPT !.reg = channels])

\* Mutant of transfer_attenuators: a failed transfer is repeated once.
transfer_attenuators_retry(ctx, channels) ==
    LET k == ctx.n + 1
        first == [ctx EXCEPT
                    !.n = k,
                    !.trace = Append(@, [bus |-> "spi", tx |-> channels,
                                         rx |-> ctx.reg,
                                         ok |-> k \notin ctx.faults])]
        second == [first EXCEPT
                     !.n = k + 1,
                     !.trace = Append(@, [bus |-> "spi", tx |-> channels,
                                          rx |-> ctx.reg,
                                          ok |-> (k + 1) \notin ctx.faults])]
    IN  IF k \notin ctx.faults
        THEN Ok(ctx.reg, [first EXCEPT !.reg = channels])
        ELSE IF (k + 1) \notin ctx.faults
        THEN Ok(ctx.reg, [second EXCEPT !.reg = channels])
        ELSE Err("Spi", second)

\* PounderDevices::transfer_attenuators: one full-duplex 4-byte transfer.
\* The buffer is shifted into the chain and receives what is shifted out.
transfer_attenuators(ctx, channels) ==
    LET k == ctx.n + 1
        fail == k \in ctx.faults
        base == [ctx EXCEPT
                   !.n = k,
                   !.trace = Append(@, [bus |-> "spi", tx |-> channels,
                                        rx |-> ctx.reg, ok |-> ~fail])]
    IN  IF fail
        THEN Err("Spi", base)
        ELSE Ok(ctx.reg, [base EXCEPT !.reg = channels])

\* crate::convert::att_is_valid: 0 dB <= attenuation <= 31.5 dB.
att_is_valid(attenuation) == 0 <= attenuation /\ attenuation <= 126

\* Mutant of attenuation_code: rounds to the nearest code.
attenuation_code_round(attenuation) == AsU8(TruncHalf(attenuation + 1))

\* (attenuation * 2.0) as u8
attenuation_code(attenuation) == AsU8(TruncHalf(attenuation))

\* !(attenuation_code << 2)
attenuation_byte(code) == Not8(Shl8(code, 2))

\* (!channels[channel]) >> 2
byte_to_code(b) == Shr8(Not8(b), 2)

\* attenuation_code as f32 / 2.0, in quarter dB
code_to_attenuation(code) == code * 2

\* let mut channels = [0_u8; 4]
ZeroChannels == [i \in 0..3 |-> 0]

\* Mutant of program_attenuator: a plain write without the read-back.
program_attenuator_plain_write(ctx, channel, code) ==
    Try(transfer_attenuators(
            ctx, [ZeroChannels EXCEPT
                    ![ChannelIndex(channel)] = attenuation_byte(code)]),
        LAMBDA t2 :
    Try(latch_attenuator(t2.ctx, channel),
        LAMBDA l :
    Ok(code_to_attenuation(code), l.ctx)))

\* PounderDevices::set_attenuation after the bounds check: read all channels,
\* modify the channel of interest, write all back, latch.
program_attenuator(ctx, channel, code) ==
    Try(transfer_attenuators(ctx, ZeroChannels),
        LAMBDA t1 :
    Try(transfer_attenuators(
            t1.ctx, [t1.val EXCEPT
                       ![ChannelIndex(channel)] = attenuation_byte(code)]),
        LAMBDA t2 :
    Try(latch_attenuator(t2.ctx, channel),
        LAMBDA l :
    Ok(code_to_attenuation(code), l.ctx))))

\* Mutant of set_attenuation: no bounds check.
set_attenuation_unchecked(ctx, channel, attenuation) ==
    program_attenuator(ctx, channel, attenuation_code(attenuation))

\* PounderDevices::set_attenuation
set_attenuation(ctx, channel, attenuation) ==
    IF ~att_is_valid(attenuation)
    THEN Err("Bounds", ctx)
    ELSE program_attenuator(ctx, channel, attenuation_code(attenuation))

\* Mutant of get_attenuation: a single transfer, without the write-back.
get_attenuation_single_transfer(ctx, channel) ==
    Try(transfer_attenuators(ctx, ZeroChannels),
        LAMBDA t1 :
    Ok(code_to_attenuation(byte_to_code(t1.val[ChannelIndex(channel)])),
       t1.ctx))

\* PounderDevices::get_attenuation
get_attenuation(ctx, channel) ==
    Try(transfer_attenuators(ctx, ZeroChannels),
        LAMBDA t1 :
    Try(transfer_attenuators(t1.ctx, t1.val),
        LAMBDA t2 :
    Ok(code_to_attenuation(byte_to_code(t2.val[ChannelIndex(channel)])),
       t2.ctx)))

----------------------------------------------------------------------------
(* Clocking and DDS profiles *)

\* ad9959::validate_clocking: the multiplier is 1 (bypass) or 4..20 and the
\* system clock does not exceed 500 MHz.
validate_clocking(reference_clock, multiplier) ==
    IF multiplier # 1 /\ multiplier \notin 4..20
    THEN [ok |-> FALSE, err |-> "Bounds"]
    ELSE IF reference_clock <= 0 \/ reference_clock * multiplier > 500
    THEN [ok |-> FALSE, err |-> "Frequency"]
    ELSE [ok |-> TRUE, err |-> "-"]

\* ad9959::frequency_to_ftw: floor(f * 2^32 / f_sys) as <<high, low>> 16-bit
\* halves; fails above the Nyquist limit f_sys / 2 and below zero.
frequency_to_ftw(dds_frequency, system_clock_frequency) ==
    IF system_clock_frequency <= 0 \/ dds_frequency < 0
       \/ 2 * dds_frequency > system_clock_frequency
    THEN [ok |-> FALSE, err |-> "Bounds", val |-> <<0, 0>>]
    ELSE [ok |-> TRUE, err |-> "-",
          val |-> << (dds_frequency * 65536) \div system_clock_frequency,
                     (((dds_frequency * 65536) % system_clock_frequency)
                         * 65536) \div system_clock_frequency >>]

\* ad9959::phase_to_pow: 14-bit phase word, wrapping.
phase_to_pow(phase) ==
    [ok |-> TRUE, err |-> "-", val |-> (((phase % 360) * 16384) \div 360) % 16384]

\* ad9959::amplitude_to_acr: 10-bit amplitude scale factor of a fraction in
\* [0, 1].
amplitude_to_acr(amplitude) ==
    IF amplitude < 0 \/ amplitude > 100
    THEN [ok |-> FALSE, err |-> "Bounds", val |-> 0]
    ELSE [ok |-> TRUE, err |-> "-", val |-> (amplitude * 1023) \div 100]

ResetProfile ==
    [frequency_tuning_word |-> <<0, 0>>, phase_offset |-> 0,
     amplitude_control |-> 0]

\* The `?` operator on a conversion result, which touches no bus.
TryConv(r, Rest(_)) ==
    IF r.ok THEN Rest(r) ELSE [ok |-> FALSE, err |-> r.err, val |-> ResetProfile]

\* impl TryFrom<(ClockConfig, ChannelConfig)> for Profile
ProfileTryFrom(clk, channel) ==
    TryConv(frequency_to_ftw(channel.dds.frequency,
                             clk.reference_clock * clk.multiplier),
        LAMBDA ftw :
    TryConv(phase_to_pow(channel.dds.phase_offset),
        LAMBDA pow :
    TryConv(amplitude_to_acr(channel.dds.amplitude),
        LAMBDA acr :
    [ok |-> TRUE, err |-> "-",
     val |-> [frequency_tuning_word |-> ftw.val,
              phase_offset |-> pow.val,
              amplitude_control |-> acr.val]])))

\* impl From<Channel> for ad9959::Channel: the DDS channel bit of a Pounder
\* channel (the ad9959 channel mask is 1 << bit).
DdsChannelBit(c) ==
    CASE c = "In0" -> 1
      [] c = "In1" -> 3
      [] c = "Out0" -> 0
      [] c = "Out1" -> 2

\* dds_output.builder().update_channels_with_profile(channel, profile).write()
update_channels_with_profile(ctx, bit, profile) ==
    [ctx EXCEPT
       !.dds[bit] = profile,
       !.trace = Append(@, [bus |-> "dds", channels |-> 2 ^ bit,
                            profile |-> profile, ok |-> TRUE])]

\* log::error!(msg, err)
log_error(ctx, msg, err) ==
    [ctx EXCEPT !.trace = Append(@, [bus |-> "log", msg |-> msg,
                                     err |-> err, ok |-> TRUE])]

----------------------------------------------------------------------------
(* Orchestration.  The state of one update_dds call is                     *)
(* [panicked, ctx, clocking, iters, validated]: whether it panicked, the   *)
(* bus context, *clocking, one record per loop iteration made (the         *)
(* channel, whether its profile was computed, whether set_attenuation was  *)
(* called and its result, and first..last, the iteration's part of the     *)
(* trace), and whether validate_clocking was called.                       *)

\* Mutant of set_ext_clk: ExtClkSel driven with the opposite polarity.
set_ext_clk_opposite(ctx, enabled) ==
    Try(set_gpio_level(ctx, "OscEnN", IF enabled THEN "High" ELSE "Low"),
        LAMBDA a :
    set_gpio_level(a.ctx, "ExtClkSel", IF enabled THEN "Low" ELSE "High"))

\* PounderDevices::set_ext_clk
set_ext_clk(ctx, enabled) ==
    Try(set_gpio_level(ctx, "OscEnN", IF enabled THEN "High" ELSE "Low"),
        LAMBDA a :
    set_gpio_level(a.ctx, "ExtClkSel", IF enabled THEN "High" ELSE "Low"))

\* Mutant of clock_applied: the pins are switched but *clocking is not
\* assigned.
clock_applied_not_remembered(e, settings, clk) ==
    [panicked |-> ~e.ok, ctx |-> e.ctx, clocking |-> clk, iters |-> <<>>,
     validated |-> TRUE]

\* set_ext_clk(..).unwrap(); *clocking = settings.clock
clock_applied(e, settings, clk) ==
    IF e.ok
    THEN [panicked |-> FALSE, ctx |-> e.ctx, clocking |-> settings.clock,
          iters |-> <<>>, validated |-> TRUE]
    ELSE [panicked |-> TRUE, ctx |-> e.ctx, clocking |-> clk, iters |-> <<>>,
          validated |-> TRUE]

\* Mutant of clock_step: the requested clock is remembered although
\* validate_clocking rejected it.
clock_step_keep_rejected(ctx, settings, clk) ==
    IF clk # settings.clock
    THEN IF validate_clocking(settings.clock.reference_clock,
                              settings.clock.multiplier).ok
         THEN clock_applied(
                  set_ext_clk(ctx, settings.clock.external_clock),
                  settings, clk)
         ELSE [panicked |-> FALSE,
               ctx |-> log_error(
                           ctx, "Invalid AD9959 clocking parameters",
                           validate_clocking(settings.clock.reference_clock,
                                             settings.clock.multiplier).err),
               clocking |-> settings.clock, iters |-> <<>>,
               validated |-> TRUE]
    ELSE [panicked |-> FALSE, ctx |-> ctx, clocking |-> clk, iters |-> <<>>,
          validated |-> FALSE]

\* Mutant of clock_step: the clock is validated and applied on every call,
\* without the comparison with *clocking.
clock_step_unconditional(ctx, settings, clk) ==
    IF validate_clocking(settings.clock.reference_clock,
                         settings.clock.multiplier).ok
    THEN clock_applied(
             set_ext_clk(ctx, settings.clock.external_clock),
             settings, clk)
    ELSE [panicked |-> FALSE,
          ctx |-> log_error(
                      ctx, "Invalid AD9959 clocking parameters",
                      validate_clocking(settings.clock.reference_clock,
                                        settings.clock.multiplier).err),
          clocking |-> clk, iters |-> <<>>,
          validated |-> TRUE]

\* update_dds, clock step: `if *clocking != settings.clock { ... }`.
clock_step(ctx, settings, clk) ==
    IF clk # settings.clock
    THEN IF validate_clocking(settings.clock.reference_clock,
                              settings.clock.multiplier).ok
         THEN clock_applied(
                  set_ext_clk(ctx, settings.clock.external_clock),
                  settings, clk)
         ELSE [panicked |-> FALSE,
               ctx |-> log_error(
                           ctx, "Invalid AD9959 clocking parameters",
                           validate_clocking(settings.clock.reference_clock,
                                             settings.clock.multiplier).err),
               clocking |-> clk, iters |-> <<>>,
               validated |-> TRUE]
    ELSE [panicked |-> FALSE, ctx |-> ctx, clocking |-> clk, iters |-> <<>>,
          validated |-> FALSE]

\* End of a loop iteration that started at trace position first.
iteration_done(st, ctx, pounder_channel, p_ok, called, r, first) ==
    [st EXCEPT
       !.ctx = ctx,
       !.iters = Append(@, [channel |-> pounder_channel,
                            profile_ok |-> p_ok,
                            att_called |-> called,
                            att_ok |-> called /\ r.ok,
                            att_err |-> r.err,
                            first |-> first,
                            last |-> Len(ctx.trace)])]

\* `if let Err(err) = self.pounder.set_attenuation(..) { log::error!(..) }`
attenuation_applied(st, r, pounder_channel, first) ==
    iteration_done(
        st,
        IF r.ok THEN r.ctx
        ELSE log_error(r.ctx, "Invalid attenuation settings", r.err),
        pounder_channel, TRUE, TRUE, r, first)

\* `match Profile::try_from(..) { Ok(dds_profile) => .., Err(err) => .. }`
profile_applied(st, p, channel_config, pounder_channel, first) ==
    IF p.ok
    THEN attenuation_applied(
             st,
             set_attenuation(
                 update_channels_with_profile(
                     st.ctx, DdsChannelBit(pounder_channel), p.val),
                 pounder_channel, channel_config.attenuation),
             pounder_channel, first)
    ELSE iteration_done(
             st,
             log_error(st.ctx, "Invalid AD9959 profile settings", p.err),
             pounder_channel, FALSE, FALSE, p, first)

\* update_dds, body of the channel loop.
channel_step(st, channel_config, pounder_channel) ==
    profile_applied(st, ProfileTryFrom(st.clocking, channel_config),
                    channel_config, pounder_channel, Len(st.ctx.trace) + 1)

\* Mutant of ChannelSequence: the configurations zipped with the channels
\* in the order of their discriminants.
ChannelSequence_discriminant_order(settings) ==
    << <<settings.in_channel[1], "In0">>, <<settings.in_channel[2], "Out0">>,
       <<settings.out_channel[1], "In1">>, <<settings.out_channel[2], "Out1">> >>

\* settings.in_channel.iter().chain(settings.out_channel.iter())
\*     .zip([Channel::In0, Channel::In1, Channel::Out0, Channel::Out1])
ChannelSequence(settings) ==
    << <<settings.in_channel[1], "In0">>, <<settings.in_channel[2], "In1">>,
       <<settings.out_channel[1], "Out0">>, <<settings.out_channel[2], "Out1">> >>

\* The last iteration made failed.
LastFailed(st) ==
    /\ st.iters # <<>>
    /\ ~(st.iters[Len(st.iters)].profile_ok /\ st.iters[Len(st.iters)].att_ok)

\* Mutant of channel_loop: the first failing channel ends the loop.
RECURSIVE channel_loop_stop_on_error(_, _)
channel_loop_stop_on_error(st, todo) ==
    IF todo = <<>> \/ LastFailed(st)
    THEN st
    ELSE channel_loop_stop_on_error(
             channel_step(st, Head(todo)[1], Head(todo)[2]), Tail(todo))

\* update_dds, the channel loop.
RECURSIVE channel_loop(_, _)
channel_loop(st, todo) ==
    IF todo = <<>>
    THEN st
    ELSE channel_loop(channel_step(st, Head(todo)[1], Head(todo)[2]),
                      Tail(todo))

\* What follows the clock step, unless it panicked.
after_clock_step(st, settings) ==
    IF st.panicked THEN st ELSE channel_loop(st, ChannelSequence(settings))

\* setup::Pounder::update_dds
update_dds(ctx, settings, clk) ==
    after_clock_step(clock_step(ctx, settings, clk), settings)

----------------------------------------------------------------------------
(* QspiInterface: the DDS register interface.  The context of one call is  *)
(* [mode, streaming, qspi_regs, trace, n, faults]; faults is the set of    *)
(* positions at which the QSPI peripheral reports an error (busy, FIFO).   *)

\* ad9959::Mode
Mode ==
    {"SingleBitTwoWire", "SingleBitThreeWire", "TwoBitSerial", "FourBitSerial"}

NewQspiCtx(faults) ==
    [mode |-> mode, streaming |-> streaming, qspi_regs |-> qspi_regs,
     trace |-> <<>>, n |-> 0, faults |-> faults]

\* x & (1 << b) != 0, as 0 or 1
Bit(x, b) == (x \div (2 ^ b)) % 2

\* 0x80 | addr
ReadAddress(addr) == IF Bit(addr, 7) = 1 THEN addr ELSE addr + 128

\* hal::xspi::Qspi::write / read: one blocking transaction on the bus.  It
\* programs the data length and the functional mode of the peripheral.
qspi_transaction(ctx, kind, addr, data) ==
    LET k == ctx.n + 1
        fail == k \in ctx.faults
        base == [ctx EXCEPT
                   !.n = k,
                   !.trace = Append(@, [bus |-> "qspi", kind |-> kind,
                                        addr |-> addr, data |-> data,
                                        ok |-> ~fail])]
    IN  IF fail
        THEN Err("Qspi", base)
        ELSE Ok(0, [base EXCEPT
                      !.qspi_regs.dl = <<0, IF Len(data) = 0 THEN 0
                                            ELSE Len(data) - 1>>,
                      !.qspi_regs.fmode = IF kind = "read" THEN 1 ELSE 0])

\* let mut encoded_data: [u8; 12] = [0; 12]
EncodedZero == [i \in 0..11 |-> 0]

\* encoded_data[position] |= 1 << offset
OrBit(buf, position, offset) ==
    [buf EXCEPT ![position] = IF Bit(@, offset) = 1 THEN @ ELSE @ + 2 ^ offset]

\* Mutant of encode_bit: the odd bit on the neighbouring line, offset 1
\* instead of 4.
encode_bit_adjacent_line(buf, base, byte, bit) ==
    IF Bit(byte, bit) # 0
    THEN OrBit(buf, base + 3 - (bit \div 2), IF bit % 2 # 0 THEN 1 ELSE 0)
    ELSE buf

\* Mutant of encode_bit: the bit pairs of a byte in natural (not reversed)
\* byte order.
encode_bit_natural(buf, base, byte, bit) ==
    IF Bit(byte, bit) # 0
    THEN OrBit(buf, base + (bit \div 2), IF bit % 2 # 0 THEN 4 ELSE 0)
    ELSE buf

\* Body of the bit loops: offset 4 for an odd bit, 0 for an even one;
\* byte_position = 3 - (bit >> 1), counted from base.
encode_bit(buf, base, byte, bit) ==
    IF Bit(byte, bit) # 0
    THEN OrBit(buf, base + 3 - (bit \div 2), IF bit % 2 # 0 THEN 4 ELSE 0)
    ELSE buf

\* for bit in 0..8 { .. }
RECURSIVE encode_byte(_, _, _, _)
encode_byte(buf, base, byte, bit) ==
    IF bit = 8
    THEN buf
    ELSE encode_byte(encode_bit(buf, base, byte, bit), base, byte, bit + 1)

\* for byte_index in 0..data.len() { .. }
RECURSIVE encode_payload(_, _, _)
encode_payload(buf, data, byte_index) ==
    IF byte_index = Len(data)
    THEN buf
    ELSE encode_payload(
             encode_byte(buf, (byte_index + 1) * 4, data[byte_index + 1], 0),
             data, byte_index + 1)

\* The address in the first 4 bytes, the data in the remaining bytes.
encode(addr, data) == encode_payload(encode_byte(EncodedZero, 0, addr, 0), data, 0)

\* &encoded_data[1..end_index], end_index = (1 + data.len()) * 4
encoded_payload(encoded_data, len) ==
    [i \in 1..((1 + len) * 4 - 1) |-> encoded_data[i]]

\* self.qspi.write(encoded_address, encoded_payload)?; Ok(())
write_encoded(ctx, encoded_data, len) ==
    Try(qspi_transaction(ctx, "write", encoded_data[0],
                         encoded_payload(encoded_data, len)),
        LAMBDA w : Ok(0, w.ctx))

\* Mutant of write_single_bit: no bounds check; what does not fit into the
\* buffer is cut off.
write_single_bit_truncating(ctx, addr, data) ==
    IF Len(data) * 4 > 12 - 4
    THEN write_encoded(ctx, encode(addr, SubSeq(data, 1, 2)), 2)
    ELSE write_encoded(ctx, encode(addr, data), Len(data))

\* QspiInterface::write, ad9959::Mode::SingleBitTwoWire arm.
write_single_bit(ctx, addr, data) ==
    IF Len(data) * 4 > 12 - 4
    THEN Err("Bounds", ctx)
    ELSE write_encoded(ctx, encode(addr, data), Len(data))

\* QspiInterface::write, ad9959::Mode::FourBitSerial arm.
write_four_bit(ctx, addr, data) ==
    IF ctx.streaming
    THEN Err("InvalidState", ctx)
    ELSE Try(qspi_transaction(ctx, "write", addr, data),
             LAMBDA w : Ok(0, w.ctx))

\* QspiInterface::write
write(ctx, addr, data) ==
    CASE ctx.mode = "SingleBitTwoWire" -> write_single_bit(ctx, addr, data)
      [] ctx.mode = "FourBitSerial" -> write_four_bit(ctx, addr, data)
      [] OTHER -> Err("InvalidState", ctx)

\* Mutant of read: reads are let through in every mode.
read_any_mode(ctx, addr, len) ==
    Try(qspi_transaction(ctx, "read", addr, [i \in 1..len |-> 0]),
        LAMBDA r : Ok(0, r.ctx))

\* QspiInterface::read
read(ctx, addr, len) ==
    IF ctx.mode # "FourBitSerial"
    THEN Err("InvalidState", ctx)
    ELSE Try(qspi_transaction(ctx, "read", ReadAddress(addr),
                              [i \in 1..len |-> 0]),
             LAMBDA r : Ok(0, r.ctx))

\* QspiInterface::configure_mode
configure_mode(ctx, m) == Ok(0, [ctx EXCEPT !.mode = m])

\* hal::xspi::Qspi::is_busy: an error while a transaction is in progress.
is_busy(ctx) ==
    IF (ctx.n + 1) \in ctx.faults
    THEN Err("Qspi", [ctx EXCEPT !.n = @ + 1])
    ELSE Ok(0, [ctx EXCEPT !.n = @ + 1])

\* The register writes of start_stream: DLR = 0xFFFF_FFFF (as 16-bit
\* halves), CCR.IMODE = FMODE = ADMODE = 0; then streaming = true.  The
\* write to FCR.CTCF clears a status flag and leaves no register content.
enter_stream(ctx) ==
    [ctx EXCEPT
       !.qspi_regs = [dl |-> <<65535, 65535>>,
                      imode |-> 0, fmode |-> 0, admode |-> 0],
       !.streaming = TRUE]

\* Mutant of start_stream: the registers are written before the busy check.
start_stream_unchecked(ctx) ==
    Try(is_busy(enter_stream(ctx)), LAMBDA b : Ok(0, b.ctx))

\* QspiInterface::start_stream
start_stream(ctx) ==
    Try(is_busy(ctx), LAMBDA b : Ok(0, enter_stream(b.ctx)))

----------------------------------------------------------------------------
(* IoExpander: the GPIO expander behind its two chip drivers, and          *)
(* PounderDevices::new.  The chip is 16 pins in two 8-bit ports; pin n of  *)
(* port A / P0 has index n and pin n of port B / P1 index 8 + n.  Each pin *)
(* has a direction bit (1 = input) and an output latch bit (1 = high).     *)
(* The context of one call is [io, expander, trace, n, faults].            *)

\* enum IoExpander; "None" before the probe.
IoExpander == {"Mcp", "Pca"}

\* mcp230xx::Mcp23017::A<n>, B<n> and tca9539::Pin::P0<n>, P1<n>
A(n) == [port |-> "A", bit |-> n]
B(n) == [port |-> "B", bit |-> n]
P0(n) == [port |-> "P0", bit |-> n]
P1(n) == [port |-> "P1", bit |-> n]

\* impl From<GpioPin> for mcp230xx::Mcp23017
Mcp23017Pin(x) ==
    CASE x = "Led4Green" -> A(0)
      [] x = "Led5Red" -> A(1)
      [] x = "Led6Green" -> A(2)
      [] x = "Led7Red" -> A(3)
      [] x = "Led8Green" -> A(4)
      [] x = "Led9Red" -> A(5)
      [] x = "DetPwrdown0" -> A(6)
      [] x = "DetPwrdown1" -> A(7)
      [] x = "AttLe0" -> B(0)
      [] x = "AttLe1" -> B(1)
      [] x = "AttLe2" -> B(2)
      [] x = "AttLe3" -> B(3)
      [] x = "DdsReset" -> B(4)
      [] x = "AttRstN" -> B(5)
      [] x = "OscEnN" -> B(6)
      [] x = "ExtClkSel" -> B(7)

\* Mutant of Tca9539Pin: the two reset lines exchanged.
Tca9539Pin_resets_exchanged(x) ==
    CASE x = "Led4Green" -> P0(0)
      [] x = "Led5Red" -> P0(1)
      [] x = "Led6Green" -> P0(2)
      [] x = "Led7Red" -> P0(3)
      [] x = "Led8Green" -> P0(4)
      [] x = "Led9Red" -> P0(5)
      [] x = "DetPwrdown0" -> P0(6)
      [] x = "DetPwrdown1" -> P0(7)
      [] x = "AttLe0" -> P1(0)
      [] x = "AttLe1" -> P1(1)
      [] x = "AttLe2" -> P1(2)
      [] x = "AttLe3" -> P1(3)
      [] x = "DdsReset" -> P1(5)
      [] x = "AttRstN" -> P1(4)
      [] x = "OscEnN" -> P1(6)
      [] x = "ExtClkSel" -> P1(7)

\* impl From<GpioPin> for tca9539::Pin
Tca9539Pin(x) ==
    CASE x = "Led4Green" -> P0(0)
      [] x = "Led5Red" -> P0(1)
      [] x = "Led6Green" -> P0(2)
      [] x = "Led7Red" -> P0(3)
      [] x = "Led8Green" -> P0(4)
      [] x = "Led9Red" -> P0(5)
      [] x = "DetPwrdown0" -> P0(6)
      [] x = "DetPwrdown1" -> P0(7)
      [] x = "AttLe0" -> P1(0)
      [] x = "AttLe1" -> P1(1)
      [] x = "AttLe2" -> P1(2)
      [] x = "AttLe3" -> P1(3)
      [] x = "DdsReset" -> P1(4)
      [] x = "AttRstN" -> P1(5)
      [] x = "OscEnN" -> P1(6)
      [] x = "ExtClkSel" -> P1(7)

\* pin.into() for the selected variant
ChipPin(variant, x) ==
    IF variant = "Mcp" THEN Mcp23017Pin(x) ELSE Tca9539Pin(x)

\* Index of a chip pin in the chip's port registers.
PinIndex(p) == (IF p.port \in {"A", "P0"} THEN 0 ELSE 8) + p.bit

NewIoCtx(faults) ==
    [io |-> io, expander |-> expander, trace |-> <<>>, n |-> 0,
     faults |-> faults]

\* One register write of a chip driver (set_direction, set_gpio, set_level):
\* bit `field` of chip pin p becomes v, unless the bus fails.
chip_write(ctx, gpio, p, field, v) ==
    LET k == ctx.n + 1
        fail == k \in ctx.faults
        base == [ctx EXCEPT
                   !.n = k,
                   !.trace = Append(@, [bus |-> "i2c", gpio |-> gpio,
                                        pin |-> p, field |-> field,
                                        value |-> v, ok |-> ~fail])]
    IN  IF fail
        THEN Err("Bus", base)
        ELSE Ok(0, [base EXCEPT !.expander[PinIndex(p)][field] = v])

\* .map_err(|_| Error::I2c)
map_err(r, e) == IF r.ok THEN r ELSE Err(e, r.ctx)

\* mcp230xx::Direction / mcp230xx::Level as the chip's register bits.
mcp_direction_bit(d) == IF d = "Output" THEN 0 ELSE 1
mcp_level_bit(l) == IF l = "High" THEN 1 ELSE 0

\* match dir { Output => tca9539::Direction::Output, _ => Input }
tca_direction(d) == IF d = "Output" THEN "tca9539.Output" ELSE "tca9539.Input"

\* Mutant of tca_level: the match arms exchanged.
tca_level_inverted(l) == IF l = "Low" THEN "tca9539.High" ELSE "tca9539.Low"

\* match level { Low => tca9539::Level::Low, _ => High }
tca_level(l) == IF l = "Low" THEN "tca9539.Low" ELSE "tca9539.High"

\* tca9539::Direction / tca9539::Level as the chip's register bits.
tca_direction_bit(d) == IF d = "tca9539.Output" THEN 0 ELSE 1
tca_level_bit(l) == IF l = "tca9539.High" THEN 1 ELSE 0

\* IoExpander::set_gpio_dir
IoExpander_set_gpio_dir(ctx, pin, d) ==
    IF ctx.io = "Mcp"
    THEN map_err(chip_write(ctx, pin, Mcp23017Pin(pin), "iodir",
                            mcp_direction_bit(d)), "I2c")
    ELSE map_err(chip_write(ctx, pin, Tca9539Pin(pin), "iodir",
                            tca_direction_bit(tca_direction(d))), "I2c")

\* IoExpander::set_gpio_level, on the chip's registers.
IoExpander_set_gpio_level(ctx, pin, l) ==
    IF ctx.io = "Mcp"
    THEN map_err(chip_write(ctx, pin, Mcp23017Pin(pin), "olat",
                            mcp_level_bit(l)), "I2c")
    ELSE map_err(chip_write(ctx, pin, Tca9539Pin(pin), "olat",
                            tca_level_bit(tca_level(l))), "I2c")

\* IoExpander::new: if mcp23017.read(0).is_ok() { Mcp } else { Pca }
IoExpander_new(ctx, probe_ok) ==
    [ctx EXCEPT
       !.io = IF probe_ok THEN "Mcp" ELSE "Pca",
       !.trace = Append(@, [bus |-> "i2c", gpio |-> "-", pin |-> A(0),
                            field |-> "probe", value |-> 0,
                            ok |-> probe_ok])]

\* GpioPin::iter(): the variants in declaration order.
GpioPinIter ==
    <<"Led4Green", "Led5Red", "Led6Green", "Led7Red", "Led8Green", "Led9Red",
      "DetPwrdown0", "DetPwrdown1", "AttLe0", "AttLe1", "AttLe2", "AttLe3",
      "DdsReset", "AttRstN", "OscEnN", "ExtClkSel">>

\* Mutant of configure_pin: the direction is switched before the level is
\* written.
configure_pin_direction_first(ctx, pin) ==
    Try(IoExpander_set_gpio_dir(ctx, pin, "Output"),
        LAMBDA d : IoExpander_set_gpio_level(d.ctx, pin, "Low"))

\* PounderDevices::new, body of the pin loop.
configure_pin(ctx, pin) ==
    Try(IoExpander_set_gpio_level(ctx, pin, "Low"),
        LAMBDA l : IoExpander_set_gpio_dir(l.ctx, pin, "Output"))

\* for pin in GpioPin::iter() { .. }
RECURSIVE configure_pins(_, _)
configure_pins(ctx, pins) ==
    IF pins = <<>>
    THEN Ok(0, ctx)
    ELSE Try(configure_pin(ctx, Head(pins)),
             LAMBDA c : configure_pins(c.ctx, Tail(pins)))

\* PounderDevices::reset_attenuators
reset_attenuators(ctx) ==
    Try(IoExpander_set_gpio_level(ctx, "AttRstN", "Low"),
        LAMBDA lo : IoExpander_set_gpio_level(lo.ctx, "AttRstN", "High"))

\* PounderDevices::reset_dds
reset_dds(ctx) ==
    Try(IoExpander_set_gpio_level(ctx, "DdsReset", "High"),
        LAMBDA hi : IoExpander_set_gpio_level(hi.ctx, "DdsReset", "Low"))

\* The outcome of PounderDevices::new: a panic, or the result r.
Constructed(panicked, r) ==
    [panicked |-> panicked, ok |-> r.ok /\ ~panicked, err |-> r.err,
     ctx |-> r.ctx]

\* devices.reset_dds().unwrap(); Ok(devices)
new_reset_dds(r) == Constructed(~r.ok, r)

\* devices.reset_attenuators().unwrap(); ..
new_reset_attenuators(r) ==
    IF r.ok THEN new_reset_dds(reset_dds(r.ctx)) ELSE Constructed(TRUE, r)

\* The `?` of the pin loop, then the two reset pulses.
new_configured(c) ==
    IF c.ok
    THEN new_reset_attenuators(reset_attenuators(c.ctx))
    ELSE Constructed(FALSE, c)

\* PounderDevices::new
PounderDevices_new(ctx, probe_ok) ==
    new_configured(configure_pins(IoExpander_new(ctx, probe_ok), GpioPinIter))

\* The level and the direction of every GpioPin, read through the variant's
\* own pin mapping.
LogicalLevel(variant, chip) ==
    [g \in GpioPin |->
        IF chip[PinIndex(ChipPin(variant, g))].olat = 1 THEN "High" ELSE "Low"]
LogicalDir(variant, chip) ==
    [g \in GpioPin |->
        IF chip[PinIndex(ChipPin(variant, g))].iodir = 0
        THEN "Output" ELSE "Input"]

----------------------------------------------------------------------------
(* Sensors.  The context of one call is [sensors, trace, n, faults]:       *)
(* sensors holds what the LM75 and the four ADC channels would read, and   *)
(* faults the positions of the reads that fail.  A panic unwinds through   *)
(* every caller like an error nobody handles: Err("panic").                *)

NewSensorCtx(sensors, faults) ==
    [sensors |-> sensors, trace |-> <<>>, n |-> 0, faults |-> faults]

Panic(ctx) == Err("panic", ctx)

\* Mutant of unwrap: a failed read yields the default value.
unwrap_or_default(r) == IF r.ok THEN r ELSE Ok(0, r.ctx)

\* Result::unwrap
unwrap(r) == IF r.ok THEN r ELSE Panic(r.ctx)

\* One read of a sensor: the LM75, or channel 0 / 1 of the pwr or aux_adc
\* pair.
sensor_read(ctx, bus, sensor, e) ==
    LET k == ctx.n + 1
        fail == k \in ctx.faults
        base == [ctx EXCEPT
                   !.n = k,
                   !.trace = Append(@, [bus |-> bus, sensor |-> sensor,
                                        ok |-> ~fail])]
    IN  IF fail THEN Err(e, base) ELSE Ok(ctx.sensors[sensor], base)

\* self.<pair>.<i>.read_normalized().unwrap()
read_normalized(ctx, sensor) == unwrap(sensor_read(ctx, "adc", sensor, "Adc"))

\* self.lm75.read_temperature()
read_temperature(ctx) == sensor_read(ctx, "lm75", "lm75", "Lm75")

\* adc_scale * 2.048, in microvolts
adc_voltage(adc_scale) == adc_scale * 2048

\* Ok(adc_scale * 2.048)
scaled(r) == Ok(adc_voltage(r.val), r.ctx)

\* PounderDevices::sample_aux_adc
sample_aux_adc(ctx, channel) ==
    CASE channel = "In0" -> Try(read_normalized(ctx, "aux_adc.0"), scaled)
      [] channel = "In1" -> Try(read_normalized(ctx, "aux_adc.1"), scaled)
      [] OTHER -> Err("InvalidChannel", ctx)

\* Mutant of sample_converter: an output channel reads the ADC of its
\* input channel.
sample_converter_any_channel(ctx, channel) ==
    CASE channel \in {"In0", "Out0"} ->
            Try(read_normalized(ctx, "pwr.0"), scaled)
      [] OTHER -> Try(read_normalized(ctx, "pwr.1"), scaled)

\* PounderDevices::sample_converter
sample_converter(ctx, channel) ==
    CASE channel = "In0" -> Try(read_normalized(ctx, "pwr.0"), scaled)
      [] channel = "In1" -> Try(read_normalized(ctx, "pwr.1"), scaled)
      [] OTHER -> Err("InvalidChannel", ctx)

\* analog_measurement * (1. / 0.0517) + (-58. + 20.), in 1/51700 dBm
power_dbm(analog_measurement) == analog_measurement + (-58 + 20) * 51700

\* PounderDevices::measure_power
measure_power(ctx, channel) ==
    Try(sample_converter(ctx, channel),
        LAMBDA m : Ok(power_dbm(m.val), m.ctx))

\* PounderDevices::temperature
temperature(ctx) == map_err(read_temperature(ctx), "I2c")

\* setup::Pounder::get_telemetry
get_telemetry(ctx, config) ==
    Try(unwrap(read_temperature(ctx)),
        LAMBDA t :
    Try(unwrap(measure_power(t.ctx, "In0")),
        LAMBDA p0 :
    Try(unwrap(measure_power(p0.ctx, "In1")),
        LAMBDA p1 :
    Ok([temperature |-> t.val, input_power |-> <<p0.val, p1.val>>,
        config |-> config], p1.ctx))))

----------------------------------------------------------------------------
(* DFU boot flag.  A u32 is the pair <<high, low>> of its 16-bit halves;   *)
(* memory is bytes, the least significant byte at the lowest address.      *)

\* const DFU_REBOOT_FLAG: u32 = 0xDEAD_BEEF
DFU_REBOOT_FLAG == <<57005, 48879>>

\* core::ptr::read_unaligned::<u32>
read_unaligned(mem) == <<mem[3] * 256 + mem[2], mem[1] * 256 + mem[0]>>

\* core::ptr::write_unaligned::<u32>
write_unaligned(value) ==
    [i \in 0..3 |->
        CASE i = 0 -> value[2] % 256
          [] i = 1 -> value[2] \div 256
          [] i = 2 -> value[1] % 256
          [] i = 3 -> value[1] \div 256]

\* Mutant of dfu_bootflag: the flag is read but not cleared.
dfu_bootflag_not_cleared(mem) ==
    [set |-> DFU_REBOOT_FLAG = read_unaligned(mem),
     mem |-> mem,
     trace |-> <<[bus |-> "mem", kind |-> "read",
                  value |-> read_unaligned(mem)]>>]

\* dfu_bootflag: compare the word with the flag, then clear it.
dfu_bootflag(mem) ==
    [set |-> DFU_REBOOT_FLAG = read_unaligned(mem),
     mem |-> write_unaligned(<<0, 0>>),
     trace |-> <<[bus |-> "mem", kind |-> "read",
                  value |-> read_unaligned(mem)],
                 [bus |-> "mem", kind |-> "write", value |-> <<0, 0>>]>>]

\* Mutant of start_dfu_reboot: the reset is triggered first; it does not
\* return, so the flag is never written.
start_dfu_reboot_reset_first(mem) ==
    [mem |-> mem,
     trace |-> <<[bus |-> "scb", kind |-> "sys_reset", value |-> <<0, 0>>]>>]

\* start_dfu_reboot: write the flag, then SCB::sys_reset(), which does not
\* return.
start_dfu_reboot(mem) ==
    [mem |-> write_unaligned(DFU_REBOOT_FLAG),
     trace |-> <<[bus |-> "mem", kind |-> "write",
                  value |-> DFU_REBOOT_FLAG],
                 [bus |-> "scb", kind |-> "sys_reset", value |-> <<0, 0>>]>>]

----------------------------------------------------------------------------
(* TelemetryClient.  The MQTT client (minimq) is the environment: what     *)
(* happens to the broker connection during a poll, whether the client can  *)
(* publish, and the outcome of each publish call are inputs of a call.     *)
(* The context of one call is [mqtt, meta_published, trace, panicked].     *)

\* The client before its first connection.
NewMqtt == [connected |-> FALSE, meta_sent |-> 0]

NewNetCtx ==
    [mqtt |-> mqtt, meta_published |-> meta_published, trace |-> <<>>,
     panicked |-> FALSE]

\* self.mqtt.poll(..): the connection is established, lost, or lost and
\* established again; a new connection has carried no message yet.
poll(m, event) ==
    CASE event = "connect" /\ ~m.connected -> [NewMqtt EXCEPT !.connected = TRUE]
      [] event = "drop" -> [m EXCEPT !.connected = FALSE]
      [] event = "reconnect" /\ m.connected -> [NewMqtt EXCEPT !.connected = TRUE]
      [] OTHER -> m

\* log::info!(msg, error)
log_info(ctx, msg, err) ==
    [ctx EXCEPT !.trace = Append(@, [bus |-> "log", msg |-> msg,
                                     err |-> err, ok |-> TRUE])]

\* The match on the result of poll: only an unexpected error is logged.
polled(ctx, in) ==
    IF in.poll \notin {"Ok", "Unaddressable"}
    THEN log_info([ctx EXCEPT !.mqtt = poll(@, in.event)],
                  "Unexpected error", in.poll)
    ELSE [ctx EXCEPT !.mqtt = poll(@, in.event)]

\* let mut topic: String<128> = self.prefix.try_into().unwrap();
\* topic.push_str(suffix).unwrap()
topic_fits(prefix_len, suffix_len) == prefix_len + suffix_len <= 128

\* mqtt.client().publish(..): accepted only while connected.
client_publish(ctx, topic, payload, accepted) ==
    [ctx EXCEPT
       !.trace = Append(@, [bus |-> "mqtt", topic |-> topic,
                            payload |-> payload,
                            ok |-> accepted /\ ctx.mqtt.connected]),
       !.mqtt.meta_sent = IF accepted /\ ctx.mqtt.connected /\ topic = "/meta"
                          THEN @ + 1 ELSE @]

\* The last publish call of the context was accepted.
published(ctx) == ctx.trace[Len(ctx.trace)].ok

\* .publish(Publication::new(DEFAULT_METADATA..)).unwrap();
\* self.meta_published = true
fallback_published(ctx) ==
    IF published(ctx)
    THEN [ctx EXCEPT !.meta_published = TRUE]
    ELSE [ctx EXCEPT !.panicked = TRUE]

\* if mqtt.client().publish(metadata).is_err() { fallback }
\* self.meta_published = true
metadata_published(ctx, in) ==
    IF published(ctx)
    THEN [ctx EXCEPT !.meta_published = TRUE]
    ELSE fallback_published(
             client_publish(ctx, "/meta", "DEFAULT_METADATA", in.second))

\* Mutant of publish_metadata: meta_published is not set.
publish_metadata_not_recorded(ctx, in, prefix_len) ==
    IF ~topic_fits(prefix_len, 5)
    THEN [ctx EXCEPT !.panicked = TRUE]
    ELSE client_publish(ctx, "/meta", "metadata", in.first)

\* TelemetryClient::update, "Publish application metadata".
publish_metadata(ctx, in, prefix_len) ==
    IF ~topic_fits(prefix_len, 5)
    THEN [ctx EXCEPT !.panicked = TRUE]
    ELSE metadata_published(
             client_publish(ctx, "/meta", "metadata", in.first), in)

\* TelemetryClient::update after the poll.
after_poll(ctx, in, prefix_len) ==
    IF ~ctx.mqtt.connected
    THEN [ctx EXCEPT !.meta_published = FALSE]
    ELSE IF ~ctx.meta_published /\ in.can_publish
    THEN publish_metadata(ctx, in, prefix_len)
    ELSE ctx

\* TelemetryClient::update
update(ctx, in, prefix_len) == after_poll(polled(ctx, in), in, prefix_len)

\* .map_err(|e| log::error!("Telemetry publishing error: {:?}", e)).ok()
telemetry_published(ctx) ==
    IF published(ctx)
    THEN ctx
    ELSE log_error(ctx, "Telemetry publishing error", "-")

\* TelemetryClient::publish
publish(ctx, accepted, prefix_len) ==
    IF ~topic_fits(prefix_len, 10)
    THEN [ctx EXCEPT !.panicked = TRUE]
    ELSE telemetry_published(
             client_publish(ctx, "/telemetry", "telemetry", accepted))

----------------------------------------------------------------------------
(* Inputs *)

NoFault == {}
SingleFaults(n) == {{p} : p \in 1..n}

\* Requested attenuations in quarter dB: -0.25, 0, 0.25, 0.5, 31.25, 31.5,
\* 31.75 and 64.25 dB.
AttInputs == {-1, 0, 1, 2, 125, 126, 127, 257}

\* Attenuations requested in the calls during which a bus fault is injected.
FaultAtts == {2}

SetAttenuationInputs ==
    {<<c, a, NoFault>> : c \in Channel, a \in AttInputs}
    \cup {<<c, a, f>> : c \in Channel, a \in FaultAtts, f \in SingleFaults(4)}

GetAttenuationInputs ==
    {<<c, f>> : c \in Channel, f \in {NoFault} \cup SingleFaults(2)}

\* ClockConfig::default()
DefaultClock ==
    [multiplier |-> 5, reference_clock |-> 100, external_clock |-> FALSE]

\* Requested clock configurations: the default, the default on the external
\* reference, a slower valid one, and one with an out-of-range multiplier.
ClockInputs ==
    {DefaultClock,
     [DefaultClock EXCEPT !.external_clock = TRUE],
     [DefaultClock EXCEPT !.multiplier = 4],
     [DefaultClock EXCEPT !.multiplier = 21]}

\* ChannelConfig::default()
DefaultChannel ==
    [dds |-> [frequency |-> 0, phase_offset |-> 0, amplitude |-> 0],
     attenuation |-> 126]

\* 225 MHz is below Nyquist at a 500 MHz system clock and above it at 400 MHz.
TunedChannel ==
    [dds |-> [frequency |-> 225, phase_offset |-> 90, amplitude |-> 50],
     attenuation |-> 3]

BadFrequencyChannel == [DefaultChannel EXCEPT !.dds.frequency = 300]
BadAttenuationChannel == [DefaultChannel EXCEPT !.attenuation = 127]

ChannelInputs ==
    {DefaultChannel, TunedChannel, BadFrequencyChannel, BadAttenuationChannel}

DefaultChannels ==
    [in_channel |-> <<DefaultChannel, DefaultChannel>>,
     out_channel |-> <<DefaultChannel, DefaultChannel>>]

\* Four valid channels with four different attenuations.
MixedChannels ==
    [in_channel |-> <<TunedChannel, [DefaultChannel EXCEPT !.attenuation = 0]>>,
     out_channel |-> <<[DefaultChannel EXCEPT !.attenuation = 62],
                       DefaultChannel>>]

\* The defaults with one channel replaced, and the mixed configuration.
ChannelSettings ==
    {[DefaultChannels EXCEPT !.in_channel[i] = c] :
        i \in 1..2, c \in ChannelInputs}
    \cup {[DefaultChannels EXCEPT !.out_channel[i] = c] :
        i \in 1..2, c \in ChannelInputs}
    \cup {MixedChannels}

PounderConfig(clk, chs) ==
    [clock |-> clk, in_channel |-> chs.in_channel,
     out_channel |-> chs.out_channel]

\* Clock requests made in the calls during which a bus fault is injected.
FaultClocks == {k \in ClockInputs : k.multiplier # 4}

\* update_dds performs at most 2 + 4 * 4 = 18 fallible bus operations.
UpdateDdsInputs ==
    {<<PounderConfig(k, chs), NoFault>> :
        k \in ClockInputs, chs \in ChannelSettings}
    \cup {<<PounderConfig(k, DefaultChannels), f>> :
        k \in FaultClocks, f \in SingleFaults(18)}

\* Raw address bytes: the first and the last DDS register, and patterns
\* that exercise every bit in both polarities.
AddressInputs == {0, 24, 90, 165, 255}

\* Payloads of 0, 1 and 2 bytes, and longer ones.
PayloadInputs ==
    {<<>>, <<0>>, <<1>>, <<85>>, <<128>>, <<255>>,
     <<85, 170>>, <<170, 85>>, <<1, 128>>, <<195, 60>>,
     <<1, 2, 3>>, <<255, 255, 255>>, <<1, 2, 3, 4>>}

WriteInputs ==
    {<<a, d, f>> : a \in AddressInputs, d \in PayloadInputs,
                   f \in {NoFault} \cup SingleFaults(1)}

\* Lengths of the destination buffers of reads.
ReadLengths == {1, 2, 4}

ReadInputs ==
    {<<a, l, f>> : a \in AddressInputs, l \in ReadLengths,
                   f \in {NoFault} \cup SingleFaults(1)}

\* Pins driven through the expander outside the attenuator and reset
\* protocols: LEDs, a detector power-down, the clock selection.
IoPins == {"Led4Green", "Led9Red", "DetPwrdown1", "OscEnN", "ExtClkSel"}

\* PounderDevices::new performs 16 * 2 + 2 + 2 = 36 expander writes.
NewInputs ==
    {<<probe_ok, f>> : probe_ok \in BOOLEAN,
                       f \in {NoFault} \cup SingleFaults(36)}

Sensors == {"lm75", "pwr.0", "pwr.1", "aux_adc.0", "aux_adc.1"}

\* What the sensors read: 25 or 60 degrees, a quarter of or the full ADC
\* scale.
SensorInputs ==
    {[s \in Sensors |-> IF s = "lm75" THEN t ELSE adc[s]] :
        t \in {25, 60}, adc \in [Sensors \ {"lm75"} -> {250, 1000}]}

\* Configurations handed to get_telemetry.
TelemetryConfigs ==
    {PounderConfig(k, DefaultChannels) : k \in ClockInputs}
    \cup {PounderConfig(DefaultClock, MixedChannels)}

\* Contents of the boot flag word at power-on: zero, the flag, the flag with
\* its lowest byte cleared, the flag's low half alone, all ones.
BootWords ==
    {<<0, 0>>, DFU_REBOOT_FLAG, <<57005, 48640>>, <<0, 48879>>,
     <<65535, 65535>>}

\* Lengths of the telemetry prefix: a usual one, the longest that leaves
\* room for "/meta" but not for "/telemetry", and one too long for both.
PrefixLengths == {24, 120, 124}

\* What the MQTT client does during one update call.
TelemetryUpdateInputs ==
    [event : {"none", "connect", "drop", "reconnect"},
     poll : {"Ok", "Unaddressable", "Other"},
     can_publish : BOOLEAN,
     first : BOOLEAN,
     second : BOOLEAN]

----------------------------------------------------------------------------
(* State machine *)

\* Contents of the attenuator registers at power-on.
PowerOnBytes == {0, 255}

\* PounderDevices::new: every pin driven low, then AttRstN pulsed low-high
\* and DdsReset pulsed high-low.
InitLevel == [p \in GpioPin |-> IF p = "AttRstN" THEN "High" ELSE "Low"]

\* PounderDevices::new: every pin an output.
InitDir == [p \in GpioPin |-> "Output"]

\* The GpioPin at index i of each variant's chip.
GpioAt ==
    [variant \in IoExpander |->
        [i \in 0..15 |->
            CHOOSE g \in GpioPin : PinIndex(ChipPin(variant, g)) = i]]

\* The chip registers that hold the given levels and directions.
ChipImage(variant, lvl, d) ==
    [i \in 0..15 |->
        [iodir |-> IF d[GpioAt[variant][i]] = "Output" THEN 0 ELSE 1,
         olat |-> IF lvl[GpioAt[variant][i]] = "High" THEN 1 ELSE 0]]

\* hal::xspi::Qspi in four-bit mode, as QspiInterface::new configures it:
\* address and data on four lines, no instruction phase.
InitQspiRegs == [dl |-> <<0, 0>>, imode |-> 0, fmode |-> 0, admode |-> 3]

\* QspiInterface::new
InitQspi ==
    /\ mode = "SingleBitTwoWire"
    /\ streaming = FALSE
    /\ qspi_regs = InitQspiRegs

\* TelemetryClient::new with a usual prefix, before the first connection;
\* the boot flag as the start-up check leaves it.
InitSys ==
    /\ bootflag = write_unaligned(<<0, 0>>)
    /\ meta_published = FALSE
    /\ prefix = 24
    /\ mqtt = NewMqtt

\* The devices as constructed on a board with the MCP23017 populated; the
\* construction itself and the fallback variant are explored by SpecIo.
Init ==
    /\ \E b \in PowerOnBytes :
          /\ reg = [i \in 0..3 |-> b]
          /\ out = [i \in 0..3 |-> b]
    /\ level = InitLevel
    /\ dds = [i \in 0..3 |-> ResetProfile]
    /\ clocking = DefaultClock
    /\ op = "new"
    /\ args = <<>>
    /\ ret = <<>>
    /\ trace = <<>>
    /\ calls = 0
    /\ InitQspi
    /\ io = "Mcp"
    /\ dir = InitDir
    /\ expander = ChipImage("Mcp", InitLevel, InitDir)
    /\ InitSys

Commit(ctx) ==
    /\ reg' = ctx.reg
    /\ out' = ctx.out
    /\ level' = ctx.level
    /\ dds' = ctx.dds
    /\ trace' = ctx.trace
    /\ expander' = ChipImage(io, ctx.level, dir)
    /\ UNCHANGED <<io, dir>>
    /\ UNCHANGED qspiVars
    /\ UNCHANGED sysVars

\* The calls on the sensors.
SensorOps == {"measure_power", "sample_aux_adc", "get_telemetry"}

\* A panic ends the firmware.
Running ==
    /\ ~(op = "update_dds" /\ ret.panicked)
    /\ ~(op \in SensorOps /\ ret.err = "panic")

\* The call returned r.
Returned(name, a, r) ==
    /\ Commit(r.ctx)
    /\ op' = name
    /\ args' = a
    /\ ret' = [ok |-> r.ok, err |-> r.err, val |-> r.val]
    /\ calls' = calls + 1

SetAttenuation ==
    /\ calls < MaxCalls
    /\ Running
    /\ \E in \in SetAttenuationInputs :
          Returned("set_attenuation",
                   [channel |-> in[1], attenuation |-> in[2]],
                   set_attenuation(NewCtx(in[3]), in[1], in[2]))
    /\ UNCHANGED clocking

GetAttenuation ==
    /\ calls < MaxCalls
    /\ Running
    /\ \E in \in GetAttenuationInputs :
          Returned("get_attenuation", [channel |-> in[1]],
                   get_attenuation(NewCtx(in[2]), in[1]))
    /\ UNCHANGED clocking

\* update_dds ended in state st: returned, or panicked.
Updated(settings, st) ==
    /\ Commit(st.ctx)
    /\ clocking' = st.clocking
    /\ op' = "update_dds"
    /\ args' = [settings |-> settings, clocking |-> clocking]
    /\ ret' = [panicked |-> st.panicked, iters |-> st.iters,
               validated |-> st.validated]
    /\ calls' = calls + 1

UpdateDds ==
    /\ calls < MaxCalls
    /\ Running
    /\ \E in \in UpdateDdsInputs :
          Updated(in[1], update_dds(NewCtx(in[2]), in[1], clocking))

NextAtt == SetAttenuation \/ GetAttenuation

SpecAtt == Init /\ [][NextAtt]_vars

NextUpd == UpdateDds

SpecUpd == Init /\ [][NextUpd]_vars

\* A QspiInterface call returned r.
QspiReturned(name, a, r) ==
    /\ mode' = r.ctx.mode
    /\ streaming' = r.ctx.streaming
    /\ qspi_regs' = r.ctx.qspi_regs
    /\ trace' = r.ctx.trace
    /\ op' = name
    /\ args' = a
    /\ ret' = [ok |-> r.ok, err |-> r.err, val |-> r.val]
    /\ UNCHANGED <<reg, out, level, dds, clocking, calls>>
    /\ UNCHANGED ioVars
    /\ UNCHANGED sysVars

\* The DDS interface is used once the hardware has been set up.
ConfigureMode ==
    /\ op # "power_on"
    /\ \E m \in Mode :
           QspiReturned("configure_mode", [mode |-> m],
                        configure_mode(NewQspiCtx(NoFault), m))

Write ==
    /\ op # "power_on"
    /\ \E in \in WriteInputs :
           QspiReturned("write", [addr |-> in[1], data |-> in[2]],
                        write(NewQspiCtx(in[3]), in[1], in[2]))

Read ==
    /\ op # "power_on"
    /\ \E in \in ReadInputs :
           QspiReturned("read", [addr |-> in[1], len |-> in[2]],
                        read(NewQspiCtx(in[3]), in[1], in[2]))

StartStream ==
    /\ op # "power_on"
    /\ \E f \in {NoFault} \cup SingleFaults(1) :
           QspiReturned("start_stream", [busy |-> f # NoFault],
                        start_stream(NewQspiCtx(f)))

NextQspi == ConfigureMode \/ Write \/ Read \/ StartStream

SpecQspi == Init /\ [][NextQspi]_vars

\* Power-on: the expander not yet probed, its pins inputs, its output
\* latches at the chip's reset value.
InitPowerOn ==
    /\ \E b \in {0, 1} :
          /\ expander = [i \in 0..15 |-> [iodir |-> 1, olat |-> b]]
          /\ level = [p \in GpioPin |-> IF b = 1 THEN "High" ELSE "Low"]
    /\ dir = [p \in GpioPin |-> "Input"]
    /\ io = "None"
    /\ reg = [i \in 0..3 |-> 0]
    /\ out = [i \in 0..3 |-> 0]
    /\ dds = [i \in 0..3 |-> ResetProfile]
    /\ clocking = DefaultClock
    /\ op = "power_on"
    /\ args = <<>>
    /\ ret = <<>>
    /\ trace = <<>>
    /\ calls = 0
    /\ InitQspi
    /\ InitSys

\* The expander after a call that ended with context ctx.
IoCommit(ctx) ==
    /\ io' = ctx.io
    /\ expander' = ctx.expander
    /\ level' = LogicalLevel(ctx.io, ctx.expander)
    /\ dir' = LogicalDir(ctx.io, ctx.expander)
    /\ trace' = ctx.trace
    /\ UNCHANGED <<reg, out, dds, clocking>>
    /\ UNCHANGED qspiVars
    /\ UNCHANGED sysVars

\* PounderDevices::new ended in r: Ok(devices), Err, or a panic.
NewReturned(probe_ok, r) ==
    /\ IoCommit(r.ctx)
    /\ op' = "new"
    /\ args' = [probe_ok |-> probe_ok]
    /\ ret' = [panicked |-> r.panicked, ok |-> r.ok, err |-> r.err]
    /\ UNCHANGED calls

New ==
    /\ op = "power_on"
    /\ \E in \in NewInputs :
          NewReturned(in[1], PounderDevices_new(NewIoCtx(in[2]), in[1]))

\* An IoExpander call returned r.
IoReturned(name, a, r) ==
    /\ IoCommit(r.ctx)
    /\ op' = name
    /\ args' = a
    /\ ret' = [panicked |-> FALSE, ok |-> r.ok, err |-> r.err]
    /\ calls' = calls + 1

\* PounderDevices::new returned the devices.
DevicesBuilt == op # "power_on" /\ (op = "new" => ret.ok)

SetGpioLevel ==
    /\ calls < MaxCalls
    /\ DevicesBuilt
    /\ \E pin \in IoPins, l \in {"Low", "High"},
          f \in {NoFault} \cup SingleFaults(1) :
          IoReturned("set_gpio_level", [pin |-> pin, level |-> l],
                     IoExpander_set_gpio_level(NewIoCtx(f), pin, l))

SetGpioDir ==
    /\ calls < MaxCalls
    /\ DevicesBuilt
    /\ \E pin \in IoPins, d \in {"Input", "Output"},
          f \in {NoFault} \cup SingleFaults(1) :
          IoReturned("set_gpio_dir", [pin |-> pin, dir |-> d],
                     IoExpander_set_gpio_dir(NewIoCtx(f), pin, d))

NextIo == New \/ SetGpioLevel \/ SetGpioDir

SpecIo == InitPowerOn /\ [][NextIo]_vars

\* A sensor call returned r.
SensorReturned(name, a, r) ==
    /\ trace' = r.ctx.trace
    /\ op' = name
    /\ args' = a
    /\ ret' = [ok |-> r.ok, err |-> r.err, val |-> r.val]
    /\ calls' = calls + 1
    /\ UNCHANGED <<reg, out, level, dds, clocking>>
    /\ UNCHANGED qspiVars
    /\ UNCHANGED ioVars
    /\ UNCHANGED sysVars

\* Reads fail one at a time; a call makes at most three.
SensorFaults == {NoFault} \cup SingleFaults(3)

MeasurePower ==
    /\ calls < MaxCalls
    /\ Running
    /\ \E c \in Channel, s \in SensorInputs, f \in {NoFault} \cup SingleFaults(1) :
          SensorReturned("measure_power", [channel |-> c, sensors |-> s],
                         measure_power(NewSensorCtx(s, f), c))

SampleAuxAdc ==
    /\ calls < MaxCalls
    /\ Running
    /\ \E c \in Channel, s \in SensorInputs, f \in {NoFault} \cup SingleFaults(1) :
          SensorReturned("sample_aux_adc", [channel |-> c, sensors |-> s],
                         sample_aux_adc(NewSensorCtx(s, f), c))

GetTelemetry ==
    /\ calls < MaxCalls
    /\ Running
    /\ \E config \in TelemetryConfigs, s \in SensorInputs, f \in SensorFaults :
          SensorReturned("get_telemetry", [config |-> config, sensors |-> s],
                         get_telemetry(NewSensorCtx(s, f), config))

NextSensors == MeasurePower \/ SampleAuxAdc \/ GetTelemetry

SpecSensors == Init /\ [][NextSensors]_vars

\* Power-on for the boot flag and the telemetry client: the flag's memory
\* holds whatever it held, the client is constructed with its prefix.
InitBoot ==
    /\ \E b \in PowerOnBytes :
          /\ reg = [i \in 0..3 |-> b]
          /\ out = [i \in 0..3 |-> b]
    /\ level = InitLevel
    /\ dds = [i \in 0..3 |-> ResetProfile]
    /\ clocking = DefaultClock
    /\ op = "power_on"
    /\ args = <<>>
    /\ ret = [panicked |-> FALSE]
    /\ trace = <<>>
    /\ calls = 0
    /\ InitQspi
    /\ io = "Mcp"
    /\ dir = InitDir
    /\ expander = ChipImage("Mcp", InitLevel, InitDir)
    /\ \E w \in BootWords : bootflag = write_unaligned(w)
    /\ meta_published = FALSE
    /\ prefix \in PrefixLengths
    /\ mqtt = NewMqtt

\* What the boot flag and the telemetry client leave alone.
devVars == <<reg, out, level, dds, clocking, calls>>

\* A panic ends the firmware.
SysRunning == ~ret.panicked

\* A TelemetryClient call ended with context c.
NetReturned(name, a, c) ==
    /\ op' = name
    /\ args' = a
    /\ ret' = [panicked |-> c.panicked]
    /\ trace' = c.trace
    /\ mqtt' = c.mqtt
    /\ meta_published' = c.meta_published
    /\ UNCHANGED <<bootflag, prefix>>
    /\ UNCHANGED devVars
    /\ UNCHANGED qspiVars
    /\ UNCHANGED ioVars

Update ==
    /\ SysRunning
    /\ \E in \in TelemetryUpdateInputs :
          NetReturned("update", in, update(NewNetCtx, in, prefix))

Publish ==
    /\ SysRunning
    /\ \E accepted \in BOOLEAN :
          NetReturned("publish", [accepted |-> accepted],
                      publish(NewNetCtx, accepted, prefix))

\* dfu_bootflag returned r.set and left r.mem.
FlagChecked(r) ==
    /\ op' = "dfu_bootflag"
    /\ args' = <<>>
    /\ ret' = [panicked |-> FALSE, val |-> r.set]
    /\ trace' = r.trace
    /\ bootflag' = r.mem
    /\ UNCHANGED <<meta_published, prefix, mqtt>>
    /\ UNCHANGED devVars
    /\ UNCHANGED qspiVars
    /\ UNCHANGED ioVars

DfuBootflag ==
    /\ SysRunning
    /\ FlagChecked(dfu_bootflag(bootflag))

\* start_dfu_reboot left memory r.mem and the system was reset: memory is
\* retained, the firmware starts again and constructs its telemetry client,
\* the broker connection is gone.
Rebooted(r) ==
    /\ op' = "start_dfu_reboot"
    /\ args' = <<>>
    /\ ret' = [panicked |-> FALSE]
    /\ trace' = r.trace
    /\ bootflag' = r.mem
    /\ meta_published' = FALSE
    /\ mqtt' = NewMqtt
    /\ UNCHANGED prefix
    /\ UNCHANGED devVars
    /\ UNCHANGED qspiVars
    /\ UNCHANGED ioVars

StartDfuReboot ==
    /\ SysRunning
    /\ Rebooted(start_dfu_reboot(bootflag))

NextSys == DfuBootflag \/ StartDfuReboot \/ Update \/ Publish

SpecSys == InitBoot /\ [][NextSys]_vars

----------------------------------------------------------------------------
(* Properties of the attenuator protocol *)

\* The channel table as the documentation states it: discriminant and latch
\* line of every channel.
DocIndex == [c \in Channel |->
                CASE c = "In0" -> 0 [] c = "Out0" -> 1
                  [] c = "In1" -> 2 [] c = "Out1" -> 3]
DocLatch == [c \in Channel |->
                CASE c = "In0" -> "AttLe0" [] c = "Out0" -> "AttLe1"
                  [] c = "In1" -> "AttLe2" [] c = "Out1" -> "AttLe3"]

\* The step is a new driver call of the given name.
IsCall(name) == calls' = calls + 1 /\ op' = name

\* C1: a successful set_attenuation(c, a) with a a multiple of 0.5 dB in
\* [0, 31.5], followed immediately by a successful get_attenuation(c),
\* makes get_attenuation return exactly a.
C1_RoundTrip ==
    [][(/\ op = "set_attenuation" /\ ret.ok
        /\ args.attenuation % 2 = 0
        /\ IsCall("get_attenuation") /\ ret'.ok
        /\ args'.channel = args.channel)
       => ret'.val = args.attenuation]_vars

\* C2: set_attenuation with an attenuation outside [0, 31.5] dB returns
\* Error::Bounds, performs no SPI transfer and no GPIO write, and leaves the
\* shift register, the latched outputs and the pin levels unchanged.
C2_OutOfBoundsRejected ==
    [][(/\ IsCall("set_attenuation")
        /\ (args'.attenuation < 0 \/ args'.attenuation > 126))
       => /\ ~ret'.ok /\ ret'.err = "Bounds"
          /\ trace' = <<>>
          /\ reg' = reg /\ out' = out /\ level' = level]_vars

\* Reached: a rejected request made after an earlier call has programmed a
\* byte of the register.
C2_Witness ==
    /\ op = "set_attenuation" /\ args.attenuation > 126
    /\ ret.err = "Bounds"
    /\ \E i \in 0..3 : reg[i] \notin PowerOnBytes

\* C3: a successful set_attenuation(c, a) sets byte c of the shift register
\* to NOT(floor(2a) << 2) and leaves the staged bytes and the latched
\* outputs of the other three channels as they were before the call.
C3_OnlyOwnByteChanges ==
    [][(IsCall("set_attenuation") /\ ret'.ok)
       => LET k == DocIndex[args'.channel]
          IN  /\ reg'[k] = 255 - ((4 * (args'.attenuation \div 2)) % 256)
              /\ \A i \in 0..3 :
                    i # k => reg'[i] = reg[i] /\ out'[i] = out[i]]_vars

\* Reached: a successful call while another channel holds a byte programmed
\* by an earlier call.
C3_Witness ==
    /\ op = "set_attenuation" /\ ret.ok
    /\ \E i \in 0..3 :
          /\ i # DocIndex[args.channel]
          /\ reg[i] \notin PowerOnBytes \cup {0}

\* C4: a successful set_attenuation(c, a) performs exactly: an SPI transfer,
\* an SPI transfer that differs from the data read only in byte k, then
\* AttLe<k> low, then AttLe<k> high, k the discriminant of c; no other pin
\* is written.
C4_BusOrder ==
    (op = "set_attenuation" /\ ret.ok)
    => LET k == DocIndex[args.channel]
           pin == DocLatch[args.channel]
       IN  /\ Len(trace) = 4
           /\ trace[1].bus = "spi" /\ trace[1].ok
           /\ trace[2].bus = "spi" /\ trace[2].ok
           /\ \A i \in 0..3 : i # k => trace[2].tx[i] = trace[1].rx[i]
           /\ trace[2].tx[k] = reg[k]
           /\ trace[3].bus = "i2c" /\ trace[3].ok
           /\ trace[3].pin = pin /\ trace[3].level = "Low"
           /\ trace[4].bus = "i2c" /\ trace[4].ok
           /\ trace[4].pin = pin /\ trace[4].level = "High"
           /\ out[k] = reg[k]

\* Reached: a successful call on the last channel.
C4_Witness ==
    /\ op = "set_attenuation" /\ ret.ok /\ args.channel = "Out1"
    /\ level["AttLe3"] = "High"

\* C5: a successful set_attenuation(c, a) programs the code floor(2a) and
\* returns floor(2a) / 2: a multiple of 0.5 dB in [0, 31.5] that does not
\* exceed a.
C5_Truncation ==
    (op = "set_attenuation" /\ ret.ok)
    => LET a == args.attenuation
           code == a \div 2
           k == DocIndex[args.channel]
       IN  /\ 0 <= a /\ a <= 126
           /\ ret.val = 2 * code
           /\ reg[k] = 255 - 4 * code
           /\ out[k] = 255 - 4 * code
           /\ ret.val % 2 = 0 /\ 0 <= ret.val /\ ret.val <= 126
           /\ ret.val <= a

\* Reached: 31.25 dB requested, 31.0 dB programmed and returned.
C5_Witness ==
    /\ op = "set_attenuation" /\ ret.ok
    /\ args.attenuation = 125 /\ ret.val = 124

----------------------------------------------------------------------------
(* Properties of update_dds *)

\* The channels of a configuration as the documentation assigns them, in
\* processing order: configuration, channel, DDS channel bit.
DocChannels(settings) ==
    << [config |-> settings.in_channel[1], channel |-> "In0", bit |-> 1],
       [config |-> settings.in_channel[2], channel |-> "In1", bit |-> 3],
       [config |-> settings.out_channel[1], channel |-> "Out0", bit |-> 0],
       [config |-> settings.out_channel[2], channel |-> "Out1", bit |-> 2] >>

\* Positions of the trace events of the last call on the given bus.
Events(bus) == {i \in 1..Len(trace) : trace[i].bus = bus}

\* DDS writes of the last call to the given channel bit.
DdsWrites(bit) == {i \in Events("dds") : trace[i].channels = 2 ^ bit}

\* Writes of the last call to the given pin.
PinWrites(pin) == {i \in Events("i2c") : trace[i].pin = pin}

\* Every bus operation of the last call succeeded.
NoBusError == \A i \in 1..Len(trace) : trace[i].ok

\* The requested clock is acceptable to the DDS.
ClockAccepted(clk) == validate_clocking(clk.reference_clock, clk.multiplier).ok

\* The profile of channel d is computable under clock clk.
ProfileOk(clk, d) == ProfileTryFrom(clk, d.config).ok

AttenuationOk(d) == 0 <= d.config.attenuation /\ d.config.attenuation <= 126

\* C6: when exactly one channel's profile cannot be computed, the other
\* three channels and the clock are valid and no bus operation fails, the
\* clock is applied, each other channel gets its DDS profile written and its
\* attenuation programmed and latched, the failing channel gets neither a
\* DDS write nor an attenuator transaction, and exactly one error is logged.
C6_OneBadProfile ==
    (op = "update_dds" /\ NoBusError /\ ClockAccepted(args.settings.clock))
    => LET ch == DocChannels(args.settings)
           bad == {i \in 1..4 : ~ProfileOk(args.settings.clock, ch[i])}
       IN  (Cardinality(bad) = 1
            /\ \A i \in (1..4) \ bad : AttenuationOk(ch[i]))
           => /\ ~ret.panicked
              /\ clocking = args.settings.clock
              /\ (args.clocking # args.settings.clock
                  => /\ PinWrites("OscEnN") # {}
                     /\ PinWrites("ExtClkSel") # {})
              /\ \A i \in (1..4) \ bad :
                    LET k == DocIndex[ch[i].channel]
                    IN  /\ Cardinality(DdsWrites(ch[i].bit)) = 1
                        /\ dds[ch[i].bit] =
                              ProfileTryFrom(args.settings.clock,
                                             ch[i].config).val
                        /\ reg[k] = 255 - 4 * (ch[i].config.attenuation \div 2)
                        /\ out[k] = reg[k]
                        /\ Cardinality(PinWrites(DocLatch[ch[i].channel])) = 2
              /\ \A i \in bad :
                    /\ DdsWrites(ch[i].bit) = {}
                    /\ PinWrites(DocLatch[ch[i].channel]) = {}
              /\ Cardinality(Events("spi")) = 6
              /\ Cardinality(Events("log")) = 1

\* Reached: the second channel (In1) alone has an unrepresentable frequency,
\* after a clock change.
C6_Witness ==
    /\ op = "update_dds" /\ NoBusError
    /\ args.clocking # args.settings.clock
    /\ clocking = args.settings.clock
    /\ args.settings.in_channel[2] = BadFrequencyChannel
    /\ Cardinality(Events("log")) = 1
    /\ Cardinality(Events("dds")) = 3

\* C7: when set_attenuation fails for a channel (Bounds, Spi or I2c), the
\* error is logged within that channel's iteration and every later channel
\* is still processed: its profile is computed and, if that succeeds, its
\* DDS registers are written and set_attenuation is called for it.
C7_AttenuationErrorContinues ==
    op = "update_dds"
    => \A i \in 1..Len(ret.iters) :
          (ret.iters[i].att_called /\ ~ret.iters[i].att_ok)
          => LET ch == DocChannels(args.settings)
                 it == ret.iters
             IN  /\ it[i].att_err \in {"Bounds", "Spi", "I2c"}
                 /\ trace[it[i].last].bus = "log"
                 /\ trace[it[i].last].msg = "Invalid attenuation settings"
                 /\ trace[it[i].last].err = it[i].att_err
                 /\ Len(it) = 4
                 /\ \A j \in (i + 1)..4 :
                       /\ it[j].channel = ch[j].channel
                       /\ it[j].profile_ok = ProfileOk(clocking, ch[j])
                       /\ it[j].profile_ok
                          => /\ \E e \in DdsWrites(ch[j].bit) :
                                   it[j].first <= e /\ e <= it[j].last
                             /\ it[j].att_called
                             /\ AttenuationOk(ch[j])
                                => \E e \in Events("spi") :
                                      it[j].first <= e /\ e <= it[j].last

\* Reached: the SPI transfer of the first channel fails and the last
\* channel's attenuation is nevertheless programmed.
C7_Witness ==
    /\ op = "update_dds" /\ Len(ret.iters) = 4
    /\ ret.iters[1].att_called /\ ret.iters[1].att_err = "Spi"
    /\ ret.iters[4].att_ok

\* C8: when the requested clock differs from the applied one and is
\* accepted, then, if the two GPIO writes succeed, OscEnN and ExtClkSel are
\* both driven high for an external clock and both low otherwise and
\* *clocking becomes the requested clock; *clocking changes only if both
\* writes succeeded.
C8_ClockApplied ==
    (/\ op = "update_dds"
     /\ args.clocking # args.settings.clock
     /\ ClockAccepted(args.settings.clock))
    => LET lvl == IF args.settings.clock.external_clock THEN "High" ELSE "Low"
           written == /\ Len(trace) >= 2
                      /\ trace[1].bus = "i2c" /\ trace[1].ok
                      /\ trace[1].pin = "OscEnN" /\ trace[1].level = lvl
                      /\ trace[2].bus = "i2c" /\ trace[2].ok
                      /\ trace[2].pin = "ExtClkSel" /\ trace[2].level = lvl
       IN  /\ Len(trace) >= 1 /\ trace[1].bus = "i2c"
           /\ (trace[1].ok /\ Len(trace) >= 2 /\ trace[2].ok)
              => /\ written
                 /\ level["OscEnN"] = lvl /\ level["ExtClkSel"] = lvl
                 /\ PinWrites("OscEnN") = {1} /\ PinWrites("ExtClkSel") = {2}
                 /\ clocking = args.settings.clock
           /\ clocking # args.clocking => written

\* Reached: the external clock selected, both lines high.
C8_Witness ==
    /\ op = "update_dds"
    /\ args.clocking # args.settings.clock
    /\ args.settings.clock.external_clock
    /\ clocking = args.settings.clock
    /\ level["OscEnN"] = "High" /\ level["ExtClkSel"] = "High"

\* C9: when the requested clock differs from the applied one and is
\* rejected, *clocking keeps its value, OscEnN and ExtClkSel are not
\* written, one clocking error is logged, and the four channels are still
\* processed.
C9_ClockRejected ==
    [][(/\ IsCall("update_dds")
        /\ clocking # args'.settings.clock
        /\ ~ClockAccepted(args'.settings.clock))
       => /\ clocking' = clocking
          /\ level'["OscEnN"] = level["OscEnN"]
          /\ level'["ExtClkSel"] = level["ExtClkSel"]
          /\ \A i \in 1..Len(trace') :
                trace'[i].bus = "i2c"
                => trace'[i].pin \notin {"OscEnN", "ExtClkSel"}
          /\ Cardinality({i \in 1..Len(trace') :
                            /\ trace'[i].bus = "log"
                            /\ trace'[i].msg =
                                  "Invalid AD9959 clocking parameters"}) = 1
          /\ trace'[1].bus = "log"
          /\ ~ret'.panicked
          /\ Len(ret'.iters) = 4
          /\ \A j \in 1..4 :
                /\ ret'.iters[j].channel =
                      DocChannels(args'.settings)[j].channel
                /\ ret'.iters[j].first <= ret'.iters[j].last]_vars

\* Reached: a multiplier of 21 rejected while the default clock stays applied
\* and a channel is programmed.
C9_Witness ==
    /\ op = "update_dds"
    /\ args.settings.clock.multiplier = 21
    /\ clocking = DefaultClock
    /\ Len(ret.iters) = 4
    /\ ret.iters[1].att_ok

\* C10: update_dds never aborts: whatever the configuration, the applied
\* clock and the outcomes of the bus operations, it runs through the clock
\* step and all four channels and returns normally.
C10_NeverAborts ==
    op = "update_dds" => (~ret.panicked /\ Len(ret.iters) = 4)

----------------------------------------------------------------------------
(* Properties of the QspiInterface *)

\* C11: once start_stream has succeeded, every later write fails with
\* Error::InvalidState and issues no QSPI bus write, in every mode and
\* whatever configure_mode calls happen in between, and the streaming state
\* is never left.
C11_StreamingDisablesWrites ==
    [][/\ streaming => streaming'
       /\ (streaming /\ op' = "write")
          => /\ ~ret'.ok /\ ret'.err = "InvalidState"
             /\ trace' = <<>>]_vars

\* C12: read succeeds only in FourBitSerial mode; in every other mode it
\* returns Error::InvalidState without issuing a bus read; in FourBitSerial
\* mode exactly one bus read is issued, with address 0x80 OR addr.
C12_ReadOnlyInFourBitSerial ==
    [][op' = "read"
       => IF mode # "FourBitSerial"
          THEN /\ ~ret'.ok /\ ret'.err = "InvalidState"
               /\ trace' = <<>>
          ELSE /\ Len(trace') = 1
               /\ trace'[1].bus = "qspi" /\ trace'[1].kind = "read"
               /\ trace'[1].addr = IF args'.addr >= 128 THEN args'.addr
                                   ELSE args'.addr + 128
               /\ Len(trace'[1].data) = args'.len
               /\ ret'.ok <=> trace'[1].ok]_vars

\* Reached: a read rejected in the mode the interface is constructed in,
\* after a write was accepted in that mode.
C12_Witness ==
    /\ op = "read" /\ ret.err = "InvalidState" /\ trace = <<>>
    /\ mode = "SingleBitTwoWire"
    /\ qspi_regs # InitQspiRegs

\* C13: in SingleBitTwoWire mode a write of 1 or 2 payload bytes is accepted
\* and issues exactly one bus write (its result is the bus's), and a write
\* of 3 or more payload bytes returns Error::Bounds and issues no bus write.
C13_PayloadBound ==
    [][(op' = "write" /\ mode = "SingleBitTwoWire")
       => /\ Len(args'.data) \in {1, 2}
             => /\ Len(trace') = 1
                /\ trace'[1].bus = "qspi" /\ trace'[1].kind = "write"
                /\ ret'.ok <=> trace'[1].ok
                /\ ~ret'.ok => ret'.err = "Qspi"
          /\ Len(args'.data) >= 3
             => /\ ~ret'.ok /\ ret'.err = "Bounds"
                /\ trace' = <<>>]_vars

\* Reached: a payload of 3 bytes rejected.
C13_Witness ==
    /\ op = "write" /\ mode = "SingleBitTwoWire"
    /\ Len(args.data) = 3
    /\ ret.err = "Bounds" /\ trace = <<>>

\* The bytes handed to the bus by the last call's bus write: the address
\* argument followed by the payload argument, numbered from 0.
Frame == [i \in 0..Len(trace[1].data) |->
             IF i = 0 THEN trace[1].addr ELSE trace[1].data[i]]

\* The bytes to be sent: the address, then the payload, numbered from 0.
Source == [j \in 0..Len(args.data) |->
              IF j = 0 THEN args.addr ELSE args.data[j]]

\* C14: in SingleBitTwoWire mode, for a payload of 0 to 2 bytes, the frame
\* handed to the bus has 4 * (1 + len) bytes; bit b of source byte j is
\* carried in frame byte 4j + 3 - (b div 2), at bit 4 when b is odd and at
\* bit 0 when b is even; reading bit 4 then bit 0 of every frame byte in
\* order yields the source bytes from bit 7 down to bit 0.
C14_Encoding ==
    (op = "write" /\ mode = "SingleBitTwoWire" /\ Len(args.data) <= 2)
    => /\ Len(trace) = 1
       /\ DOMAIN Frame = 0..(4 * (1 + Len(args.data)) - 1)
       /\ \A j \in DOMAIN Source, b \in 0..7 :
             (Source[j] \div 2 ^ b) % 2
                = (Frame[4 * j + 3 - (b \div 2)]
                      \div (IF b % 2 = 1 THEN 16 ELSE 1)) % 2
       /\ \A j \in DOMAIN Source :
             Source[j] =
                128 * ((Frame[4 * j] \div 16) % 2) + 64 * (Frame[4 * j] % 2)
                + 32 * ((Frame[4 * j + 1] \div 16) % 2)
                + 16 * (Frame[4 * j + 1] % 2)
                + 8 * ((Frame[4 * j + 2] \div 16) % 2)
                + 4 * (Frame[4 * j + 2] % 2)
                + 2 * ((Frame[4 * j + 3] \div 16) % 2)
                + (Frame[4 * j + 3] % 2)

\* Reached: address 0xA5 with the payload 0xC3, 0x3C on the bus.
C14_Witness ==
    /\ op = "write" /\ mode = "SingleBitTwoWire" /\ ret.ok
    /\ args.addr = 165 /\ args.data = <<195, 60>>
    /\ Len(trace) = 1 /\ Len(trace[1].data) = 11

\* C15: when the peripheral reports busy, start_stream returns an error and
\* changes nothing: the streaming flag, the mode and the QSPI registers keep
\* their values and no bus operation is issued, so that later writes behave
\* as before the call.
C15_BusyStartStream ==
    [][(op' = "start_stream" /\ args'.busy)
       => /\ ~ret'.ok /\ ret'.err = "Qspi"
          /\ streaming' = streaming
          /\ mode' = mode
          /\ qspi_regs' = qspi_regs
          /\ trace' = <<>>]_vars

\* Reached: a busy peripheral in native mode, streaming not entered.
C15_Witness ==
    /\ op = "start_stream" /\ args.busy /\ ~ret.ok
    /\ ~streaming /\ mode = "FourBitSerial"
    /\ qspi_regs.admode = 3

----------------------------------------------------------------------------
(* Properties of the sensor read-back *)

\* Input power in 1/51700 dBm at an ADC reading of n thousandths:
\* (n / 1000 * 2.048) / 0.0517 - 38 dBm.
DocPower(n) == 2048 * n - 38 * 51700

\* C16: get_telemetry is all-or-nothing: if the temperature read or either
\* input-power read fails, no record is returned; a returned record holds
\* the temperature read, the powers of In0 and In1 in that order, and the
\* configuration passed in, whatever is applied to the hardware.
C16_TelemetryAllOrNothing ==
    op = "get_telemetry"
    => /\ (\E i \in 1..Len(trace) : ~trace[i].ok) => (~ret.ok /\ ret.val = 0)
       /\ ret.ok
          => /\ Len(trace) = 3
             /\ trace[1].sensor = "lm75"
             /\ trace[2].sensor = "pwr.0"
             /\ trace[3].sensor = "pwr.1"
             /\ ret.val.temperature = args.sensors["lm75"]
             /\ ret.val.input_power =
                   <<DocPower(args.sensors["pwr.0"]),
                     DocPower(args.sensors["pwr.1"])>>
             /\ ret.val.config = args.config

\* Reached: a record whose configuration is not the one applied, with two
\* different input powers.
C16_Witness ==
    /\ op = "get_telemetry" /\ ret.ok
    /\ ret.val.config.clock # clocking
    /\ ret.val.input_power[1] > ret.val.input_power[2]
    /\ ret.val.temperature = 60

\* C17: measure_power and sample_aux_adc return Error::InvalidChannel for
\* Out0 and Out1 without any ADC read; for In0 / In1 they read the first /
\* second ADC of their pair (pwr, aux_adc) and nothing else.
C17_InputChannelsOnly ==
    op \in {"measure_power", "sample_aux_adc"}
    => LET first == IF op = "measure_power" THEN "pwr.0" ELSE "aux_adc.0"
           second == IF op = "measure_power" THEN "pwr.1" ELSE "aux_adc.1"
           adc == IF args.channel = "In0" THEN first ELSE second
       IN  IF args.channel \in {"Out0", "Out1"}
           THEN /\ ~ret.ok /\ ret.err = "InvalidChannel"
                /\ trace = <<>>
           ELSE /\ Len(trace) = 1
                /\ trace[1].bus = "adc" /\ trace[1].sensor = adc
                /\ ret.ok <=> trace[1].ok
                /\ ret.ok
                   => ret.val = IF op = "measure_power"
                                THEN DocPower(args.sensors[adc])
                                ELSE 2048 * args.sensors[adc]

\* Reached: power requested for an output channel and refused.
C17_Witness ==
    /\ op = "measure_power" /\ args.channel = "Out1"
    /\ ret.err = "InvalidChannel" /\ trace = <<>>

----------------------------------------------------------------------------
(* Properties of the GPIO expander and of the initialisation *)

\* C18: IoExpander::new selects the Mcp variant exactly when the probe read
\* succeeds and the Pca variant otherwise; the variant never changes
\* afterwards; and every set_gpio_dir / set_gpio_level call returns Ok, or
\* Error::I2c on a bus error, and leaves the direction and the level of the
\* 16 GpioPins as the call and the bus outcome alone determine: the same
\* for both variants.
C18_ExpanderVariants ==
    [][/\ (op = "power_on" /\ op' = "new")
          => io' = IF args'.probe_ok THEN "Mcp" ELSE "Pca"
       /\ op # "power_on" => io' = io
       /\ (calls' = calls + 1 /\ op' \in {"set_gpio_level", "set_gpio_dir"})
          => /\ Len(trace') = 1
             /\ ret'.ok <=> trace'[1].ok
             /\ ~ret'.ok => (ret'.err = "I2c" /\ level' = level /\ dir' = dir)
             /\ (ret'.ok /\ op' = "set_gpio_level")
                => /\ level' = [level EXCEPT ![args'.pin] = args'.level]
                   /\ dir' = dir
             /\ (ret'.ok /\ op' = "set_gpio_dir")
                => /\ dir' = [dir EXCEPT ![args'.pin] = args'.dir]
                   /\ level' = level]_vars

\* Reached: on the fallback variant, a pin driven high and then switched to
\* an input.
C18_Witness ==
    /\ io = "Pca"
    /\ op = "set_gpio_dir" /\ ret.ok /\ args.dir = "Input"
    /\ dir[args.pin] = "Input" /\ level[args.pin] = "High"

\* Positions of the successful expander writes of the last call that set
\* bit `field` of GpioPin g to v (output latch: 0 = low, 1 = high;
\* direction: 0 = output).
Writes(g, field, v) ==
    {i \in 1..Len(trace) :
        /\ trace[i].gpio = g /\ trace[i].field = field
        /\ trace[i].value = v /\ trace[i].ok}

\* All 16 pins are outputs before trace position i.
Configured(i) ==
    \A g \in GpioPin : \E j \in Writes(g, "iodir", 0) : j < i

\* C19: in PounderDevices::new every pin's level is written Low before its
\* direction is switched to Output, so no pin is an output without its
\* level having been set Low; nothing is driven high before all 16 pins are
\* configured; then AttRstN is pulsed Low, High and after that DdsReset
\* High, Low; on success every pin is an output and Low, except AttRstN,
\* which is High.
C19_InitOrder ==
    op = "new"
    => /\ \A i \in 1..Len(trace) :
             /\ (trace[i].field = "iodir" /\ trace[i].value = 0)
                => \E j \in Writes(trace[i].gpio, "olat", 0) : j < i
             /\ (trace[i].field = "olat" /\ trace[i].value = 1)
                => /\ Configured(i)
                   /\ trace[i].gpio \in {"AttRstN", "DdsReset"}
                   /\ (i - 1) \in Writes("AttRstN", "olat", 0)
                      \/ (i - 1) \in Writes("AttRstN", "olat", 1)
                   /\ trace[i].gpio = "AttRstN"
                      <=> (i - 1) \in Writes("AttRstN", "olat", 0)
       /\ \A g \in GpioPin :
             dir[g] = "Output" => Writes(g, "olat", 0) # {}
       /\ ret.ok
          => LET n == Len(trace)
             IN  /\ Configured(n - 3)
                 /\ (n - 3) \in Writes("AttRstN", "olat", 0)
                 /\ (n - 2) \in Writes("AttRstN", "olat", 1)
                 /\ (n - 1) \in Writes("DdsReset", "olat", 1)
                 /\ n \in Writes("DdsReset", "olat", 0)
                 /\ \A g \in GpioPin :
                       /\ dir[g] = "Output"
                       /\ level[g] = IF g = "AttRstN" THEN "High" ELSE "Low"

\* Reached: the fallback variant constructed from latches that power up
\* high.
C19_Witness ==
    /\ op = "new" /\ ret.ok /\ io = "Pca"
    /\ level = InitLevel /\ dir = InitDir
    /\ Len(trace) = 37

\* C20: the mapping of the 16 GpioPins to Mcp23017 pins and the mapping to
\* tca9539 pins are injective and cover all 16 pins of their chip, and a
\* GpioPin mapped to A<n> is mapped to P0<n>, one mapped to B<n> to P1<n>;
\* so the expander writes of a call address the selected chip's pins, the
\* same pin exactly when the GpioPin is the same.
C20_PinMappingBijection ==
    /\ \A i, j \in 1..Len(trace) :
          (op \in {"new", "set_gpio_level", "set_gpio_dir"}
           /\ trace[i].gpio # "-" /\ trace[j].gpio # "-")
          => /\ trace[i].pin.port \in (IF io = "Mcp" THEN {"A", "B"}
                                       ELSE {"P0", "P1"})
             /\ trace[i].gpio = trace[j].gpio <=> trace[i].pin = trace[j].pin
    /\ \A x, y \in GpioPin :
          x # y => /\ Mcp23017Pin(x) # Mcp23017Pin(y)
                   /\ Tca9539Pin(x) # Tca9539Pin(y)
    /\ {Mcp23017Pin(x) : x \in GpioPin}
          = [port : {"A", "B"}, bit : 0..7]
    /\ {Tca9539Pin(x) : x \in GpioPin}
          = [port : {"P0", "P1"}, bit : 0..7]
    /\ \A x \in GpioPin :
          /\ Tca9539Pin(x).bit = Mcp23017Pin(x).bit
          /\ Mcp23017Pin(x).port = "A" <=> Tca9539Pin(x).port = "P0"
          /\ Mcp23017Pin(x).port = "B" <=> Tca9539Pin(x).port = "P1"
    /\ Cardinality(GpioPin) = 16

\* Reached: the construction has written every one of the 16 chip pins of
\* the fallback variant, each through a different GpioPin.
C20_Witness ==
    /\ op = "new" /\ ret.ok /\ io = "Pca"
    /\ {trace[i].pin : i \in 2..33} = [port : {"P0", "P1"}, bit : 0..7]
    /\ Cardinality({trace[i].gpio : i \in 2..33}) = 16

----------------------------------------------------------------------------
(* Properties of the attenuator protocol under bus errors *)

\* The bus operations of a complete call, in program order.
DocSteps(name) ==
    IF name = "set_attenuation"
    THEN <<"spi", "spi", "i2c", "i2c">>
    ELSE <<"spi", "spi">>

\* C21: in set_attenuation and get_attenuation every bus operation is
\* attempted at most once, the first failing SPI transfer ends the call with
\* Error::Spi and the first failing latch write with Error::I2c, nothing is
\* executed after a failure, and the latch pin is written only after two
\* successful SPI transfers.
C21_NoRetries ==
    op \in {"set_attenuation", "get_attenuation"}
    => /\ Len(trace) <= Len(DocSteps(op))
       /\ \A i \in 1..Len(trace) :
             /\ trace[i].bus = DocSteps(op)[i]
             /\ ~trace[i].ok
                => /\ i = Len(trace)
                   /\ ~ret.ok
                   /\ ret.err = IF trace[i].bus = "spi" THEN "Spi" ELSE "I2c"
             /\ trace[i].bus = "i2c"
                => /\ trace[i].pin = DocLatch[args.channel]
                   /\ trace[i].level = IF i = 3 THEN "Low" ELSE "High"
                   /\ trace[1].bus = "spi" /\ trace[1].ok
                   /\ trace[2].bus = "spi" /\ trace[2].ok
       /\ (~ret.ok /\ ret.err # "Bounds")
          => (trace # <<>> /\ ~trace[Len(trace)].ok)
       /\ ret.ok => Len(trace) = Len(DocSteps(op))

\* Reached: the second transfer of a set_attenuation fails; the call ends
\* there with Error::Spi and the latch pin untouched.
C21_Witness ==
    /\ op = "set_attenuation" /\ ~ret.ok /\ ret.err = "Spi"
    /\ Len(trace) = 2 /\ trace[1].ok /\ ~trace[2].ok
    /\ level[DocLatch[args.channel]] = "Low"

\* C22: a successful get_attenuation performs exactly two 4-byte SPI
\* transfers with the same buffer (the second sends what the first
\* received) and no GPIO write, leaves the shift register, the latched
\* outputs and the pins as they were, and returns what an immediately
\* preceding successful get_attenuation of the same channel returned.
C22_ReadNonDestructive ==
    [][(IsCall("get_attenuation") /\ ret'.ok)
       => /\ Len(trace') = 2
          /\ \A i \in 1..2 :
                /\ trace'[i].bus = "spi" /\ trace'[i].ok
                /\ DOMAIN trace'[i].tx = 0..3
                /\ DOMAIN trace'[i].rx = 0..3
          /\ trace'[2].tx = trace'[1].rx
          /\ reg' = reg /\ out' = out /\ level' = level
          /\ (op = "get_attenuation" /\ ret.ok
              /\ args.channel = args'.channel)
             => ret'.val = ret.val]_vars

\* Reached: a successful read while the register holds a byte programmed by
\* an earlier call.
C22_Witness ==
    /\ op = "get_attenuation" /\ ret.ok
    /\ Len(trace) = 2
    /\ \E i \in 0..3 : reg[i] \notin PowerOnBytes /\ trace[2].tx[i] = reg[i]

----------------------------------------------------------------------------
(* Properties of update_dds: clock step, channel mapping, register image *)

\* Writes of a call to the clock-select pins, given its trace.
ClockPinWrites(t) ==
    {i \in 1..Len(t) :
        t[i].bus = "i2c" /\ t[i].pin \in {"OscEnN", "ExtClkSel"}}

\* C23: when settings.clock equals *clocking, update_dds does not call
\* validate_clocking, does not write OscEnN or ExtClkSel, logs no clocking
\* error and leaves *clocking unchanged; of two consecutive update_dds calls
\* with the same valid settings, the second writes no clock-select pin.
C23_ClockStepSkipped ==
    [][/\ (IsCall("update_dds") /\ args'.settings.clock = clocking)
          => /\ ~ret'.validated
             /\ ClockPinWrites(trace') = {}
             /\ \A i \in 1..Len(trace') :
                   trace'[i].bus = "log"
                   => trace'[i].msg # "Invalid AD9959 clocking parameters"
             /\ clocking' = clocking
             /\ level'["OscEnN"] = level["OscEnN"]
             /\ level'["ExtClkSel"] = level["ExtClkSel"]
       /\ (/\ op = "update_dds" /\ IsCall("update_dds")
           /\ args'.settings = args.settings
           /\ ClockAccepted(args.settings.clock))
          => /\ ClockPinWrites(trace') = {}
             /\ ~ret'.validated]_vars

\* Reached: a second call with the external clock that the first call
\* applied; the clock-select pins keep their levels without being written.
C23_Witness ==
    /\ op = "update_dds" /\ calls = 2
    /\ args.settings.clock.external_clock
    /\ args.clocking = args.settings.clock
    /\ ~ret.validated
    /\ ClockPinWrites(trace) = {}
    /\ level["OscEnN"] = "High" /\ level["ExtClkSel"] = "High"

\* C24: update_dds processes in_channel[0] as In0, in_channel[1] as In1,
\* out_channel[0] as Out0 and out_channel[1] as Out1, in that order; each
\* channel's profile is written to its own DDS channel bit (Out0 = 0,
\* In0 = 1, Out1 = 2, In1 = 3) and to no other, before that channel's
\* attenuator update, which carries the channel's own attenuation and
\* latches the channel's own latch line.
C24_ChannelMapping ==
    (op = "update_dds" /\ ~ret.panicked)
    => LET ch == DocChannels(args.settings)
           it == ret.iters
       IN  /\ Len(it) = 4
           /\ \A j \in 1..4 :
                 /\ it[j].channel = ch[j].channel
                 /\ DdsChannelBit(it[j].channel) = ch[j].bit
                 /\ j > 1 => it[j].first = it[j - 1].last + 1
                 /\ it[j].profile_ok = ProfileOk(clocking, ch[j])
                 /\ it[j].profile_ok
                    => /\ trace[it[j].first].bus = "dds"
                       /\ trace[it[j].first].channels = 2 ^ ch[j].bit
                       /\ trace[it[j].first].profile =
                             ProfileTryFrom(clocking, ch[j].config).val
                       /\ DdsWrites(ch[j].bit) = {it[j].first}
                       /\ it[j].att_called
                       /\ \A e \in (it[j].first + 1)..it[j].last :
                             /\ trace[e].bus \in {"spi", "i2c", "log"}
                             /\ trace[e].bus = "i2c"
                                => trace[e].pin = DocLatch[ch[j].channel]
                       /\ it[j].att_ok
                          => /\ it[j].last = it[j].first + 4
                             /\ trace[it[j].first + 2].bus = "spi"
                             /\ \A i \in 0..3 :
                                   trace[it[j].first + 2].tx[i] =
                                      IF i = DocIndex[ch[j].channel]
                                      THEN 255 - 4 * (ch[j].config.attenuation
                                                         \div 2)
                                      ELSE trace[it[j].first + 1].rx[i]
                 /\ ~it[j].profile_ok
                    => /\ DdsWrites(ch[j].bit) = {}
                       /\ it[j].last = it[j].first
                       /\ trace[it[j].first].bus = "log"
           /\ Cardinality({DdsChannelBit(c) : c \in Channel}) = 4

\* Reached: four different configurations applied, the second one (In1) on
\* DDS bit 3 and attenuator 2, the third one (Out0) on bit 0 and
\* attenuator 1.
C24_Witness ==
    /\ op = "update_dds" /\ NoBusError
    /\ args.settings.in_channel = MixedChannels.in_channel
    /\ args.settings.out_channel = MixedChannels.out_channel
    /\ Cardinality(Events("dds")) = 4
    /\ reg[2] = 255 /\ reg[1] = 255 - 4 * 31
    /\ dds[1] # dds[3]

\* The clock in force after the clock step of the last update_dds call, from
\* the call's inputs: the requested clock if it differs from the applied
\* one and is accepted, the applied one otherwise.
ClockAfterStep ==
    IF args.clocking # args.settings.clock
       /\ ClockAccepted(args.settings.clock)
    THEN args.settings.clock
    ELSE args.clocking

\* C25: in update_dds every channel's profile is computed from *clocking as
\* it is after the clock step: whether a profile exists and what is written
\* to the DDS are those of the requested clock when it was accepted and of
\* the previously applied clock when it was rejected or unchanged; a
\* rejected clock never determines a profile.
C25_ProfileFromAppliedClock ==
    (op = "update_dds" /\ ~ret.panicked)
    => LET ch == DocChannels(args.settings)
           it == ret.iters
       IN  /\ clocking = ClockAfterStep
           /\ ClockAccepted(ClockAfterStep)
           /\ Len(it) = 4
           /\ \A j \in 1..4 :
                 /\ it[j].profile_ok = ProfileOk(ClockAfterStep, ch[j])
                 /\ it[j].profile_ok
                    => /\ trace[it[j].first].bus = "dds"
                       /\ trace[it[j].first].profile =
                             ProfileTryFrom(ClockAfterStep, ch[j].config).val
                       /\ dds[ch[j].bit] =
                             ProfileTryFrom(ClockAfterStep, ch[j].config).val
                 /\ ~it[j].profile_ok
                    => /\ trace[it[j].first].bus = "log"
                       /\ trace[it[j].first].msg =
                             "Invalid AD9959 profile settings"

\* Reached: a rejected clock under which a channel's frequency would be
\* representable, while under the clock that stays applied it is not: the
\* channel's profile is refused.
C25_Witness ==
    /\ op = "update_dds" /\ ~ret.panicked
    /\ args.clocking # args.settings.clock
    /\ ~ClockAccepted(args.settings.clock)
    /\ \E j \in 1..4 :
          /\ ~ret.iters[j].profile_ok
          /\ ProfileOk(args.settings.clock, DocChannels(args.settings)[j])

\* C26: after an update_dds with four valid channel configurations and no
\* bus error, byte c of the attenuator shift register is
\* NOT(floor(2 * att_c) << 2) for every channel c with its own configured
\* attenuation att_c, and every channel's latch pin has been written
\* exactly twice, low then high, and is high.
C26_RegisterImage ==
    (/\ op = "update_dds" /\ ~ret.panicked /\ NoBusError
     /\ \A j \in 1..4 :
           /\ ProfileOk(clocking, DocChannels(args.settings)[j])
           /\ AttenuationOk(DocChannels(args.settings)[j]))
    => \A j \in 1..4 :
          LET d == DocChannels(args.settings)[j]
              pin == DocLatch[d.channel]
          IN  /\ reg[DocIndex[d.channel]] =
                    255 - ((4 * (d.config.attenuation \div 2)) % 256)
              /\ Cardinality(PinWrites(pin)) = 2
              /\ \E lo, hi \in PinWrites(pin) :
                    /\ lo < hi
                    /\ trace[lo].level = "Low"
                    /\ trace[hi].level = "High"
              /\ level[pin] = "High"

\* Reached: four different attenuations (0.75, 0, 15.5 and 31.5 dB) staged
\* side by side and latched.
C26_Witness ==
    /\ op = "update_dds" /\ ~ret.panicked /\ NoBusError
    /\ args.settings.in_channel = MixedChannels.in_channel
    /\ args.settings.out_channel = MixedChannels.out_channel
    /\ reg = [i \in 0..3 |-> CASE i = 0 -> 251 [] i = 1 -> 131
                               [] i = 2 -> 255 [] i = 3 -> 3]
    /\ out = reg
    /\ \A p \in LatchPins : level[p] = "High"

----------------------------------------------------------------------------
(* Properties of the narrow-mode frame *)

\* The four frame bytes that carry the byte x.
EncodedByte(x) == encode_byte(EncodedZero, 0, x, 0)

\* C27: in every frame a SingleBitTwoWire write hands to the bus, whatever
\* the address and the payload, only bit 0 and bit 4 of a byte can be set:
\* bits 1, 2, 3, 5, 6 and 7 of every frame byte are zero; so it is for the
\* encoding of each of the 256 byte values.
C27_OnlyDataLineDriven ==
    /\ (op = "write" /\ mode = "SingleBitTwoWire" /\ trace # <<>>)
       => /\ trace[1].bus = "qspi" /\ trace[1].kind = "write"
          /\ \A i \in DOMAIN Frame :
                /\ \A b \in {1, 2, 3, 5, 6, 7} : (Frame[i] \div 2 ^ b) % 2 = 0
                /\ Frame[i] \in {0, 1, 16, 17}
    /\ op = "new"
       => \A x \in 0..255 :
             /\ \A i \in 0..3 : EncodedByte(x)[i] \in {0, 1, 16, 17}
             /\ \A i \in 4..11 : EncodedByte(x)[i] = 0

\* Reached: address 0xFF and payload 0xFF, every frame byte 0x11.
C27_Witness ==
    /\ op = "write" /\ mode = "SingleBitTwoWire" /\ ret.ok
    /\ args.addr = 255 /\ args.data = <<255>>
    /\ Len(trace) = 1
    /\ DOMAIN Frame = 0..7
    /\ \A i \in DOMAIN Frame : Frame[i] = 17

----------------------------------------------------------------------------
(* Properties of the DFU boot flag and of the telemetry client *)

\* The 32-bit word that four bytes of memory spell, low byte first, as
\* <<high half, low half>>.
DocWord(mem) == <<256 * mem[3] + mem[2], 256 * mem[1] + mem[0]>>

\* C28: dfu_bootflag returns true exactly when the flag word is 0xDEADBEEF
\* when it is called, and every call leaves the word 0; the word is changed
\* by dfu_bootflag and start_dfu_reboot only, so a second dfu_bootflag with
\* no start_dfu_reboot in between returns false; start_dfu_reboot writes
\* 0xDEADBEEF and then resets the system, and the word survives the reset.
C28_BootFlagReadOnce ==
    [][/\ op' = "dfu_bootflag"
          => /\ ret'.val = (DocWord(bootflag) = <<57005, 48879>>)
             /\ DocWord(bootflag') = <<0, 0>>
             /\ (op = "dfu_bootflag" => ~ret'.val)
             /\ (DocWord(bootflag) = <<0, 0>> => ~ret'.val)
       /\ bootflag' # bootflag
          => op' \in {"dfu_bootflag", "start_dfu_reboot"}
       /\ op' = "start_dfu_reboot"
          => /\ DocWord(bootflag') = <<57005, 48879>>
             /\ Len(trace') = 2
             /\ trace'[1].bus = "mem" /\ trace'[1].kind = "write"
             /\ trace'[1].value = <<57005, 48879>>
             /\ trace'[2].bus = "scb" /\ trace'[2].kind = "sys_reset"]_vars

\* Reached: the flag found set, reported and cleared.
C28_Witness ==
    /\ op = "dfu_bootflag" /\ ret.val
    /\ trace[1].kind = "read" /\ trace[1].value = DFU_REBOOT_FLAG
    /\ trace[2].kind = "write"
    /\ DocWord(bootflag) = <<0, 0>>

\* Positions of the accepted metadata publications in a call's trace.
MetaSent(t) ==
    {i \in 1..Len(t) : t[i].bus = "mqtt" /\ t[i].topic = "/meta" /\ t[i].ok}

\* C29: a broker connection carries at most one metadata message.  An
\* update publishes one exactly when, after its poll, the client is
\* connected, can publish and meta_published is false: the serialized
\* metadata, or DEFAULT_METADATA when publishing that failed; meta_published
\* is then true.  It stays true until an update finds the client
\* disconnected (or the firmware restarts), and is false after such an
\* update.
C29_MetadataOncePerConnection ==
    [][/\ mqtt'.meta_sent <= 1
       /\ (op' = "update" /\ ~ret'.panicked)
          => /\ Cardinality(MetaSent(trace')) <= 1
             /\ MetaSent(trace') # {}
                <=> (mqtt'.connected /\ args'.can_publish
                     /\ ~meta_published)
             /\ MetaSent(trace') # {} => meta_published'
             /\ \A i \in MetaSent(trace') :
                   /\ trace'[i].payload =
                         IF args'.first THEN "metadata" ELSE "DEFAULT_METADATA"
                   /\ mqtt'.meta_sent = 1
             /\ ~mqtt'.connected => ~meta_published'
             /\ mqtt'.connected
                => (meta_published' <=> (meta_published \/ MetaSent(trace') # {}))
       /\ (op' = "update" /\ ret'.panicked) => MetaSent(trace') = {}
       /\ (meta_published /\ ~meta_published')
          => \/ op' = "update" /\ ~mqtt'.connected
             \/ op' = "start_dfu_reboot"
       /\ (~meta_published /\ meta_published')
          => (op' = "update" /\ MetaSent(trace') # {})
       /\ op' = "publish" => MetaSent(trace') = {}]_vars

\* Reached: an update on a connection that has carried its metadata
\* message: the client is connected and can publish, and nothing is
\* published.
C29_Witness ==
    /\ op = "update" /\ ~ret.panicked
    /\ args.event = "none" /\ args.can_publish
    /\ meta_published /\ mqtt.connected /\ mqtt.meta_sent = 1
    /\ MetaSent(trace) = {}

====
